---- MODULE Spec2Model ----
(***************************************************************************)
(* React Grab Bridge: the browser-side content script.                     *)
(*                                                                         *)
(*  - the interaction state machine (Alt hold, hover resolution through    *)
(*    window.postMessage, click commit, Escape / blur cancellation);       *)
(*  - the relay client (one WebSocket per candidate port, polling,         *)
(*    sendToVSCode);                                                       *)
(*  - the composition dialog as far as it drives sendToVSCode.             *)
(*                                                                         *)
(* The repository holds two generations of the content script: the React   *)
(* one (multi-port, called TSX below) and the older plain-JS one           *)
(* (single-port, called LEGACY below).  Where they differ each has its own *)
(* definition.                                                             *)
(***************************************************************************)
EXTENDS Integers, Sequences, FiniteSets, TLC

NULL == "null"

TSX    == "tsx"
LEGACY == "legacy"

(***************************************************************************)
(* Program constants.                                                      *)
(***************************************************************************)
KEY_HOLD_DURATION == 150
WS_PORTS == <<9765, 9766, 9767, 9768, 9769>>
\* a null or absent port (targetPort = null, workspaces[0]?.port || null)
NoPort == 0
\* the single-endpoint script: attempts allowed after a loss, delay unit in ms
MAX_RECONNECT_ATTEMPTS == 5
RECONNECT_DELAY == 1000
\* the sanitizer: deepest level kept, array items kept, object keys kept
MAX_DEPTH == 3
ARRAY_LIMIT == 5
KEY_LIMIT == 10
\* generateJSX: a serialized value of this length or more is elided
INLINE_LIMIT == 50
\* generateJSX: text content longer than this is cut
TEXT_LIMIT == 50

(***************************************************************************)
(* Bounds of the model.                                                    *)
(***************************************************************************)
\* the clock advances in steps of TickMs milliseconds
TickMs == 50
\* hover requests issued in one behaviour (requestId is unbounded in the code)
MaxRequestId == 3
\* candidate ports the model polls: the first NumPorts of WS_PORTS
NumPorts == 2
\* WebSocket objects of one port that are not yet closed at the same time
MaxSocketsPerPort == 2
\* sendToVSCode calls in one behaviour
MaxSends == 2
\* WebSocket objects of the single-endpoint script that can raise events at once
MaxSingleSockets == 2
\* the step of the clock that runs the reconnection timers, in ms
ReconnectTickMs == 1000
\* fibers from the one attached to the DOM node up to the last ancestor
MaxChain == 3
\* browser clients of the editor's server, and the messages they send
MaxClients == 2
MaxMessages == 3
\* underlying servers created, instances created, questions left unanswered
MaxServers == 3
MaxInstances == 2
MaxPrompts == 2
\* the sanitizer's inputs: objects nested on the way to the payload, keys of
\* the widest object, items of the longest array
MaxNest == 5
MaxKeys == 12
MaxItems == 7

(***************************************************************************)
(* The page under the pointer.  At every point of the viewport the page    *)
(* has a stack of elements, topmost first.  An element is interactive or   *)
(* not (isInteractiveElement), has a fiber attached or not                 *)
(* (getFiberFromElement), and `component` names the nearest fiber up the   *)
(* return chain that isValidComponent accepts, NULL when there is none.    *)
(* The pointer starts at (0, 0).                                           *)
(***************************************************************************)
Points == {"corner", "card", "plain", "gap"}

Contexts == {"NavBar", "UserCard"}

Element(tag, interactive, fiber, component) ==
    [tag |-> tag, interactive |-> interactive, fiber |-> fiber, component |-> component]

NoElement == Element(NULL, FALSE, FALSE, NULL)

\* document.elementsFromPoint
ElementsFromPoint(p) ==
    CASE p = "corner" -> <<Element("nav", TRUE, TRUE, "NavBar"),
                           Element("html", TRUE, FALSE, NULL)>>
      [] p = "card"   -> <<Element("span", FALSE, TRUE, "UserCard"),
                           Element("div", TRUE, TRUE, "UserCard"),
                           Element("html", TRUE, FALSE, NULL)>>
      [] p = "plain"  -> <<Element("p", TRUE, FALSE, NULL),
                           Element("div", TRUE, TRUE, NULL),
                           Element("html", TRUE, FALSE, NULL)>>
      [] OTHER        -> <<>>

\* the first element of a stack among the positions that satisfy a test,
\* NoElement without one
FirstWhere(stack, hits) ==
    IF hits # {}
    THEN stack[CHOOSE i \in hits : \A j \in hits : i <= j]
    ELSE NoElement

\* the test of the first loop of findComponentElementAtPoint
HasValidComponent(e) == e.interactive /\ e.fiber /\ e.component # NULL

\* the test of its fallback loop
IsInteractive(e) == e.interactive

\* findComponentElementAtPoint: the first interactive element with a valid
\* component, else the first interactive element, else nothing
FindComponentElementAtPoint(p) ==
    LET stack == ElementsFromPoint(p)
        best  == FirstWhere(stack, {i \in DOMAIN stack : HasValidComponent(stack[i])})
    IN  IF best # NoElement
        THEN best
        ELSE FirstWhere(stack, {i \in DOMAIN stack : IsInteractive(stack[i])})

\* getElementContext, as far as its componentName
GetElementContext(e) ==
    IF e.fiber /\ e.component # NULL THEN e.component ELSE e.tag

VARIABLES
    cs,          \* the content script's interaction state, its overlay elements,
                 \* its pending hold timeout and the window's message queue
    kbd,         \* the Alt key as the document's key events show it, with what
                 \* has happened since it went down
    cancelled,   \* Escape or blur has ended grab mode and it was not armed since
    dialog,      \* the composition dialog
    sockets,     \* readyState of every WebSocket object that can still raise events
    connections, \* the connections Map, in insertion order
    extensionEnabled,
    lastCall,    \* the latest handleSendToAI call and its outcome
    wire,        \* every frame transmitted: the call's number and the socket
    discarded,   \* the numbers of the calls that found no endpoint connected
    awaiting,    \* per connection, the prompts the server has not answered yet
    notice,      \* the notification handleServerMessage showed last
    single,      \* the single-endpoint script's connection state
    san,         \* a getComponentInfo call of the page script: input, result, markup
    fib,         \* a findComponentFiber call of the page script: chain and result
    ext,         \* the editor's extension: its servers, clients and messages
    cop          \* an executePrompt call of the extension: input and result

grabVars == <<cs, kbd, cancelled>>
relayVars == <<sockets, connections, extensionEnabled, lastCall, wire, discarded,
              awaiting, notice>>
\* the state outside the multi-endpoint content script
auxVars == <<single, san, fib, ext, cop>>
vars == <<cs, kbd, cancelled, dialog, sockets, connections, extensionEnabled, lastCall, wire,
          discarded, awaiting, notice, single, san, fib, ext, cop>>

(***************************************************************************)
(* Window messages.                                                        *)
(***************************************************************************)
GetElementAtPoint(id, p) ==
    [type |-> "GRAB_GET_ELEMENT_AT_POINT", requestId |-> id, point |-> p, context |-> NULL]

ElementFound(id, p, c) ==
    [type |-> "GRAB_ELEMENT_FOUND", requestId |-> id, point |-> p, context |-> c]

ElementNotFound(id, p) ==
    [type |-> "GRAB_ELEMENT_NOT_FOUND", requestId |-> id, point |-> p, context |-> NULL]

(***************************************************************************)
(* Overlay elements.                                                       *)
(***************************************************************************)
\* showOverlay: the highlight box takes the rect, the label the context.
ShowOverlay(s, p, c) ==
    [s EXCEPT !.overlay = [display |-> "block", rect |-> p],
              !.label   = [display |-> "flex", text |-> c]]

\* hideOverlay: both elements get display none; their content stays.
HideOverlay(s) ==
    [s EXCEPT !.overlay.display = "none", !.label.display = "none"]

HideCrosshair(s) == [s EXCEPT !.crosshair = "none"]

(***************************************************************************)
(* Hover resolution.                                                       *)
(***************************************************************************)
UpdateHoverElement(s) ==
    IF ~s.isGrabMode THEN s
    ELSE LET id == s.requestId + 1 IN
         [s EXCEPT !.requestId = id,
                   !.pendingRequests = @ \cup {id},
                   !.msgQueue = Append(@, GetElementAtPoint(id, s.mouse))]

\* the injected script's listener, case GRAB_GET_ELEMENT_AT_POINT
InjectOnGetElementAtPoint(s, m) ==
    LET element == FindComponentElementAtPoint(m.point) IN
    [s EXCEPT !.msgQueue =
        Append(@, IF element # NoElement
                  THEN ElementFound(m.requestId, m.point, GetElementContext(element))
                  ELSE ElementNotFound(m.requestId, m.point))]

\* the content script's listener, case GRAB_ELEMENT_FOUND (React script)
OnElementFound(s, m) ==
    IF m.requestId \in s.pendingRequests
    THEN LET t == [s EXCEPT !.pendingRequests = @ \ {m.requestId}] IN
         IF t.isGrabMode /\ m.context # NULL
         THEN ShowOverlay([t EXCEPT !.currentContext = m.context], m.point, m.context)
         ELSE t
    ELSE s

\* the content script's listener, case GRAB_ELEMENT_FOUND (older script)
LegacyOnElementFound(s, m) ==
    IF m.requestId \in s.pendingRequests
    THEN LET t == [s EXCEPT !.pendingRequests = @ \ {m.requestId},
                            !.currentContext = m.context] IN
         IF m.context # NULL THEN ShowOverlay(t, m.point, m.context) ELSE t
    ELSE s

\* the content script's listener, case GRAB_ELEMENT_NOT_FOUND (both scripts)
OnElementNotFound(s, m) ==
    IF m.requestId \in s.pendingRequests
    THEN [HideOverlay([s EXCEPT !.pendingRequests = @ \ {m.requestId}])
            EXCEPT !.currentContext = NULL]
    ELSE s

(***************************************************************************)
(* Grab mode.                                                              *)
(***************************************************************************)
ActivateGrabMode(s) ==
    IF s.isGrabMode THEN s
    ELSE UpdateHoverElement([s EXCEPT !.isGrabMode = TRUE,
                                      !.cursor = "crosshair",
                                      !.crosshair = "block"])

\* clearTimeout(keyHoldTimer); keyHoldTimer = null
ClearHoldTimer(s) ==
    IF s.keyHoldTimer # NULL
    THEN [s EXCEPT !.timeout = [pending |-> FALSE, left |-> 0], !.keyHoldTimer = NULL]
    ELSE s

\* a faulty deactivateGrabMode that keeps the current hover context
DeactivateKeepsContext(s) ==
    IF ~s.isGrabMode THEN s
    ELSE LET t == HideCrosshair(HideOverlay([s EXCEPT !.isGrabMode = FALSE, !.cursor = ""])) IN
         [ClearHoldTimer([t EXCEPT !.pendingRequests = {}])
            EXCEPT !.keyDownTime = NULL]

DeactivateGrabMode(s) ==
    IF ~s.isGrabMode THEN s
    ELSE LET t == HideCrosshair(HideOverlay([s EXCEPT !.isGrabMode = FALSE, !.cursor = ""])) IN
         [ClearHoldTimer([t EXCEPT !.currentContext = NULL, !.pendingRequests = {}])
            EXCEPT !.keyDownTime = NULL]

\* the older script's deactivateGrabMode leaves pendingRequests alone
LegacyDeactivateGrabMode(s) ==
    IF ~s.isGrabMode THEN s
    ELSE LET t == HideCrosshair(HideOverlay([s EXCEPT !.isGrabMode = FALSE, !.cursor = ""])) IN
         [ClearHoldTimer([t EXCEPT !.currentContext = NULL])
            EXCEPT !.keyDownTime = NULL]

Deactivate(v, s) ==
    IF v = LEGACY THEN LegacyDeactivateGrabMode(s) ELSE DeactivateGrabMode(s)

(***************************************************************************)
(* Key handlers.  keyDownTime holds Date.now(); the code only ever tests   *)
(* it for null, so the model keeps "stamp" for any time value.             *)
(***************************************************************************)
HandleKeyDown(v, s, key) ==
    LET a == IF key = "Alt" /\ ~s.isGrabMode /\ s.keyDownTime = NULL
             THEN [s EXCEPT !.keyDownTime = "stamp",
                            !.keyHoldTimer = "handle",
                            !.timeout = [pending |-> TRUE, left |-> KEY_HOLD_DURATION]]
             ELSE s
    IN IF key = "Escape" /\ a.isGrabMode THEN Deactivate(v, a) ELSE a

\* a faulty handleKeyUp that leaves the hold timeout pending
HandleKeyUpKeepsTimer(v, s, key) ==
    IF key = "Alt"
    THEN LET a == [s EXCEPT !.keyDownTime = NULL] IN
         LET b == IF a.isGrabMode THEN Deactivate(v, a) ELSE a IN
         IF v = LEGACY THEN b ELSE HideOverlay(b)
    ELSE s

\* a faulty handleKeyUp that forgets the hold but leaves grab mode on
HandleKeyUpStaysArmed(v, s, key) ==
    IF key = "Alt"
    THEN LET a == [ClearHoldTimer(s) EXCEPT !.keyDownTime = NULL] IN
         IF v = LEGACY THEN a ELSE HideOverlay(a)
    ELSE s

HandleKeyUp(v, s, key) ==
    IF key = "Alt"
    THEN LET a == [ClearHoldTimer(s) EXCEPT !.keyDownTime = NULL] IN
         LET b == IF a.isGrabMode THEN Deactivate(v, a) ELSE a IN
         IF v = LEGACY THEN b ELSE HideOverlay(b)
    ELSE s

(***************************************************************************)
(* Mouse handlers.                                                         *)
(***************************************************************************)
HandleMouseMove(s, p) ==
    LET a == [s EXCEPT !.mouse = p] IN
    IF a.isGrabMode THEN UpdateHoverElement(a) ELSE a

(***************************************************************************)
(* WebSocket connections.  A socket is named by its port and a slot; a     *)
(* socket whose close event has been delivered raises no further event and *)
(* frees its slot.                                                         *)
(***************************************************************************)
Ports == {WS_PORTS[i] : i \in 1..NumPorts}
Slots == 1..MaxSocketsPerPort
SockIds == Ports \X Slots

HasPort(conns, port) == \E i \in 1..Len(conns) : conns[i].port = port

\* connections.get(port): the entry, or a record without socket
GetConn(conns, port) ==
    IF HasPort(conns, port)
    THEN conns[CHOOSE i \in 1..Len(conns) : conns[i].port = port]
    ELSE [port |-> port, ws |-> <<NoPort, 0>>]

\* connections.set(port, {ws, ...}): a Map keeps the place of a key it holds
MapSet(conns, port, ws) ==
    IF HasPort(conns, port)
    THEN [i \in 1..Len(conns) |->
            IF conns[i].port = port THEN [port |-> port, ws |-> ws] ELSE conns[i]]
    ELSE Append(conns, [port |-> port, ws |-> ws])

\* connections.delete(port)
MapDelete(conns, port) == SelectSeq(conns, LAMBDA c : c.port # port)

ReadyState(socks, ws) == IF ws \in SockIds THEN socks[ws] ELSE "NONE"

\* getConnectedWorkspaces: the ports of the entries whose socket is open
GetConnectedWorkspaces(conns, socks) ==
    LET open == SelectSeq(conns, LAMBDA c : ReadyState(socks, c.ws) = "OPEN")
    IN [i \in 1..Len(open) |-> open[i].port]

\* connectToPort creates a socket unless the port has a registered open one
NeedsSocket(conns, socks, port) ==
    ~(HasPort(conns, port) /\ ReadyState(socks, GetConn(conns, port).ws) = "OPEN")

HasFreeSlot(socks, port) == \E k \in Slots : socks[<<port, k>>] = "NONE"

FreeSlot(socks, port) == CHOOSE k \in Slots :
    socks[<<port, k>>] = "NONE" /\ \A j \in Slots : socks[<<port, j>>] = "NONE" => k <= j

\* a faulty connectToAllPorts that attempts nothing while any port is connected
ConnectWhenNoneConnected(conns, socks, enabled) ==
    IF ~enabled \/ Len(GetConnectedWorkspaces(conns, socks)) > 0 THEN socks
    ELSE [id \in SockIds |->
            IF NeedsSocket(conns, socks, id[1]) /\ HasFreeSlot(socks, id[1])
               /\ id[2] = FreeSlot(socks, id[1])
            THEN "CONNECTING" ELSE socks[id]]

\* connectToAllPorts: connectToPort for every port
ConnectToAllPorts(conns, socks, enabled) ==
    IF ~enabled THEN socks
    ELSE [id \in SockIds |->
            IF NeedsSocket(conns, socks, id[1]) /\ HasFreeSlot(socks, id[1])
               /\ id[2] = FreeSlot(socks, id[1])
            THEN "CONNECTING" ELSE socks[id]]

\* the bound on sockets: a poll is modelled only when every socket it creates has a slot
CanPoll(conns, socks) ==
    \A p \in Ports : NeedsSocket(conns, socks, p) => HasFreeSlot(socks, p)

(***************************************************************************)
(* sendToVSCode.                                                           *)
(***************************************************************************)
\* WebSocket.send: throws while connecting, transmits when open, and
\* otherwise drops the frame silently
WsSend(socks, ws) ==
    CASE ReadyState(socks, ws) = "OPEN"       -> "sent"
      [] ReadyState(socks, ws) = "CONNECTING" -> "threw"
      [] OTHER                                -> "dropped"

(***************************************************************************)
(* Faulty variants of sendToVSCode.  Each departs from the code in one     *)
(* branch; the properties of sendToVSCode below tell every one of them     *)
(* from the code.                                                          *)
(***************************************************************************)
\* the target is ignored: the frame goes to the first connected workspace
SendToFirstWorkspace(conns, socks, targetPort) ==
    LET workspaces == GetConnectedWorkspaces(conns, socks)
        nothing == [ws |-> <<NoPort, 0>>, tx |-> NULL, note |-> NULL]
    IN  IF Len(workspaces) = 0
        THEN [nothing EXCEPT !.note = "Not connected to VSCode"] @@ [result |-> "false"]
        ELSE IF targetPort # NoPort \/ Len(workspaces) = 1
        THEN LET conn == GetConn(conns, workspaces[1]) IN
             [ws |-> conn.ws, tx |-> WsSend(socks, conn.ws), note |-> NULL,
              result |-> "true"]
        ELSE nothing @@ [result |-> "multiple"]

\* without a target the first connected workspace is taken, however many there are
SendGuessesFirst(conns, socks, targetPort) ==
    LET workspaces == GetConnectedWorkspaces(conns, socks)
        nothing == [ws |-> <<NoPort, 0>>, tx |-> NULL, note |-> NULL]
    IN  IF Len(workspaces) = 0
        THEN [nothing EXCEPT !.note = "Not connected to VSCode"] @@ [result |-> "false"]
        ELSE IF targetPort # NoPort
        THEN LET conn == GetConn(conns, targetPort) IN
             IF ReadyState(socks, conn.ws) = "OPEN"
             THEN [ws |-> conn.ws, tx |-> WsSend(socks, conn.ws), note |-> NULL,
                   result |-> "true"]
             ELSE nothing @@ [result |-> "false"]
        ELSE LET conn == GetConn(conns, workspaces[1]) IN
             [ws |-> conn.ws, tx |-> WsSend(socks, conn.ws), note |-> NULL,
              result |-> "true"]

\* the check for no connected workspace is missing
SendWithoutConnectedCheck(conns, socks, targetPort) ==
    LET workspaces == GetConnectedWorkspaces(conns, socks)
        nothing == [ws |-> <<NoPort, 0>>, tx |-> NULL, note |-> NULL]
    IN  IF targetPort # NoPort
        THEN LET conn == GetConn(conns, targetPort) IN
             IF ReadyState(socks, conn.ws) = "OPEN"
             THEN [ws |-> conn.ws, tx |-> WsSend(socks, conn.ws), note |-> NULL,
                   result |-> "true"]
             ELSE nothing @@ [result |-> "false"]
        ELSE IF Len(workspaces) = 1
        THEN LET conn == GetConn(conns, workspaces[1]) IN
             [ws |-> conn.ws, tx |-> WsSend(socks, conn.ws), note |-> NULL,
              result |-> "true"]
        ELSE nothing @@ [result |-> "multiple"]

\* a call without target is always answered 'multiple'
SendRequiresTarget(conns, socks, targetPort) ==
    LET workspaces == GetConnectedWorkspaces(conns, socks)
        nothing == [ws |-> <<NoPort, 0>>, tx |-> NULL, note |-> NULL]
    IN  IF Len(workspaces) = 0
        THEN [nothing EXCEPT !.note = "Not connected to VSCode"] @@ [result |-> "false"]
        ELSE IF targetPort # NoPort
        THEN LET conn == GetConn(conns, targetPort) IN
             IF ReadyState(socks, conn.ws) = "OPEN"
             THEN [ws |-> conn.ws, tx |-> WsSend(socks, conn.ws), note |-> NULL,
                   result |-> "true"]
             ELSE nothing @@ [result |-> "false"]
        ELSE nothing @@ [result |-> "multiple"]

\* a target that is not open falls through to the branches for no target
SendFallsBack(conns, socks, targetPort) ==
    LET workspaces == GetConnectedWorkspaces(conns, socks)
        nothing == [ws |-> <<NoPort, 0>>, tx |-> NULL, note |-> NULL]
    IN  IF Len(workspaces) = 0
        THEN [nothing EXCEPT !.note = "Not connected to VSCode"] @@ [result |-> "false"]
        ELSE IF targetPort # NoPort
                /\ ReadyState(socks, GetConn(conns, targetPort).ws) = "OPEN"
        THEN LET conn == GetConn(conns, targetPort) IN
             [ws |-> conn.ws, tx |-> WsSend(socks, conn.ws), note |-> NULL,
              result |-> "true"]
        ELSE IF Len(workspaces) = 1
        THEN LET conn == GetConn(conns, workspaces[1]) IN
             [ws |-> conn.ws, tx |-> WsSend(socks, conn.ws), note |-> NULL,
              result |-> "true"]
        ELSE nothing @@ [result |-> "multiple"]

\* the outcome of sendToVSCode: its return value, the socket send() was called
\* on, what send() did there, and the notification sendToVSCode showed
SendToVSCode(conns, socks, targetPort) ==
    LET workspaces == GetConnectedWorkspaces(conns, socks)
        nothing == [ws |-> <<NoPort, 0>>, tx |-> NULL, note |-> NULL]
    IN  IF Len(workspaces) = 0
        THEN [nothing EXCEPT !.note = "Not connected to VSCode"] @@ [result |-> "false"]
        ELSE IF targetPort # NoPort
        THEN LET conn == GetConn(conns, targetPort) IN
             IF ReadyState(socks, conn.ws) = "OPEN"
             THEN [ws |-> conn.ws, tx |-> WsSend(socks, conn.ws), note |-> NULL,
                   result |-> "true"]
             ELSE nothing @@ [result |-> "false"]
        ELSE IF Len(workspaces) = 1
        THEN LET conn == GetConn(conns, workspaces[1]) IN
             [ws |-> conn.ws, tx |-> WsSend(socks, conn.ws), note |-> NULL,
              result |-> "true"]
        ELSE nothing @@ [result |-> "multiple"]

(***************************************************************************)
(* The composition dialog.                                                 *)
(***************************************************************************)
\* generateMarkdown: the document the dialog lets the user edit, headed by
\* the component's name
GenerateMarkdown(context) == <<"##", context>>

ClosedDialog ==
    [open |-> FALSE, context |-> NULL, workspaces |-> <<>>, selectedPort |-> NoPort,
     prompt |-> <<>>, markdown |-> <<>>]

\* showComponentDialog renders ComponentDialog into dialogRoot: a mounted
\* dialog keeps its state (prompt, markdownContext, selectedPort) and takes
\* the new props (context, workspaces)
ShowComponentDialog(d, context, workspaces) ==
    IF d.open
    THEN [d EXCEPT !.context = context, !.workspaces = workspaces]
    ELSE [open |-> TRUE, context |-> context, workspaces |-> workspaces,
          selectedPort |-> IF Len(workspaces) > 0 THEN workspaces[1] ELSE NoPort,
          prompt |-> <<>>, markdown |-> GenerateMarkdown(context)]

\* the older script removes the dialog it finds and builds a new one
LegacyShowComponentDialog(context) ==
    [ClosedDialog EXCEPT !.open = TRUE, !.context = context,
                         !.markdown = GenerateMarkdown(context)]

\* A text is the sequence of its characters.
\* 'Analyze this React component:'
CannedPrompt ==
    <<"A", "n", "a", "l", "y", "z", "e", " ", "t", "h", "i", "s", " ", "R",
      "e", "a", "c", "t", " ", "c", "o", "m", "p", "o", "n", "e", "n", "t",
      ":">>

\* String.prototype.trim
RECURSIVE TrimStart(_)
TrimStart(s) == IF s # <<>> /\ Head(s) = " " THEN TrimStart(Tail(s)) ELSE s

RECURSIVE TrimEnd(_)
TrimEnd(s) ==
    IF s # <<>> /\ s[Len(s)] = " " THEN TrimEnd(SubSeq(s, 1, Len(s) - 1)) ELSE s

Trim(s) == TrimEnd(TrimStart(s))

\* handleSendToAI: prompt || 'Analyze this React component:'
FinalPrompt(prompt) == IF prompt # <<>> THEN prompt ELSE CannedPrompt

\* no notification of a reply has been shown
NoNotice == [text |-> NULL, kind |-> NULL]

\* the older script's sendToAI trims the field first
LegacyFinalPrompt(prompt) == IF Trim(prompt) # <<>> THEN Trim(prompt) ELSE CannedPrompt

NoCall ==
    [id |-> 0, prompt |-> <<>>, target |-> NULL, context |-> NULL, markdown |-> <<>>,
     targetPort |-> NoPort,
     connected |-> <<>>, result |-> NULL, ws |-> <<NoPort, 0>>, tx |-> NULL, notes |-> <<>>]

\* handleSendToAI up to handleClose: the record of the call.  An exception
\* of send() leaves handleSendToAI before anything else happens.
HandleSendToAI(conns, socks, d, target, id) ==
    LET out == SendToVSCode(conns, socks, d.selectedPort) IN
    [id         |-> id,
     prompt     |-> FinalPrompt(d.prompt),
     target     |-> target,
     context    |-> d.context,
     markdown   |-> d.markdown,
     targetPort |-> d.selectedPort,
     connected  |-> GetConnectedWorkspaces(conns, socks),
     result     |-> IF out.tx = "threw" THEN "threw" ELSE out.result,
     ws         |-> out.ws,
     tx         |-> out.tx,
     notes      |-> (IF out.note # NULL THEN <<out.note>> ELSE <<>>)
                    \o (IF out.tx # "threw" /\ out.result = "false"
                        THEN <<"Failed to send to VSCode">> ELSE <<>>)]

(***************************************************************************)
(* The single-endpoint script: one WebSocket, reconnection after a loss.   *)
(***************************************************************************)
SingleSlots == 1..MaxSingleSockets
\* ws = null
NoSocket == 0

\* init() on an enabled host: connectWebSocket has created the first socket
InitSingle ==
    [ws                |-> 1,
     socks             |-> [k \in SingleSlots |-> IF k = 1 THEN "CONNECTING" ELSE "NONE"],
     isConnected       |-> FALSE,
     reconnectAttempts |-> 0,
     timers            |-> <<>>,
     extensionEnabled  |-> TRUE,
     scheduled         |-> <<>>]

\* a faulty attemptReconnect that waits the same delay before every attempt
AttemptReconnectFixedDelay(s) ==
    IF ~s.extensionEnabled \/ s.reconnectAttempts >= MAX_RECONNECT_ATTEMPTS
    THEN s
    ELSE [s EXCEPT !.reconnectAttempts = @ + 1,
                   !.timers = Append(@, [delay |-> RECONNECT_DELAY, left |-> RECONNECT_DELAY]),
                   !.scheduled = Append(@, RECONNECT_DELAY)]

\* attemptReconnect; timers holds the pending setTimeout calls, each with its
\* delay and the time left, scheduled the delays of all calls since a
\* connection last opened
AttemptReconnect(s) ==
    IF ~s.extensionEnabled \/ s.reconnectAttempts >= MAX_RECONNECT_ATTEMPTS
    THEN s
    ELSE [s EXCEPT !.reconnectAttempts = @ + 1,
                   !.timers = Append(@, [delay |-> RECONNECT_DELAY * (s.reconnectAttempts + 1),
                                         left  |-> RECONNECT_DELAY * (s.reconnectAttempts + 1)]),
                   !.scheduled = Append(@, RECONNECT_DELAY * (s.reconnectAttempts + 1))]

SingleFreeSlots(s) == {k \in SingleSlots : s.socks[k] = "NONE" /\ k # s.ws}

\* connectWebSocket; throws tells whether new WebSocket(WS_URL) raised
ConnectWebSocket(s, throws) ==
    IF ~s.extensionEnabled
    THEN s
    ELSE IF throws
    THEN AttemptReconnect(s)
    ELSE LET k == CHOOSE f \in SingleFreeSlots(s) : TRUE IN
         [s EXCEPT !.ws = k, !.socks[k] = "CONNECTING"]

\* seq without its element at position i
RemoveAt(seq, i) == SubSeq(seq, 1, i - 1) \o SubSeq(seq, i + 1, Len(seq))

(***************************************************************************)
(* The page script's sanitizer.  A value is a tagged leaf or a reference   *)
(* into a heap of objects, arrays and React elements, so that two          *)
(* references can name the same object.                                    *)
(***************************************************************************)
Leaf(kind, v) == [kind |-> kind, v |-> v]
Str(s) == Leaf("string", s)
Num(n) == Leaf("number", n)
Ref(id) == Leaf("ref", id)
Undefined == Leaf("undefined", NULL)
\* a plain object with its keys in enumeration order; the reads of the keys
\* in throwing raise an exception
Obj(keys, vals, throwing) ==
    [kind |-> "object", keys |-> keys, vals |-> vals, throwing |-> throwing]
Arr(items) == [kind |-> "array", items |-> items]
ReactElement(typeName) == [kind |-> "react", typeName |-> typeName]

\* key.startsWith(prefix) for a prefix of one character
StartsWith(key, prefix) == Len(key) >= 1 /\ SubSeq(key, 1, 1) = prefix

\* the outcome of one sanitize call: its value, the seen set it leaves, and
\* whether it raised an exception instead of returning
Returned(out, seen) == [out |-> out, seen |-> seen, threw |-> FALSE]
Thrown(seen) == [out |-> Undefined, seen |-> seen, threw |-> TRUE]

\* a faulty depth test that lets primitive values through at any depth
DepthExceededForObjects(value, depth) ==
    depth > MAX_DEPTH /\ value.kind = "ref"

\* depth > maxDepth
DepthExceeded(value, depth) == depth > MAX_DEPTH

\* Object.keys(value).slice(0, 10)
RetainedKeys(keys) ==
    SubSeq(keys, 1, IF Len(keys) > KEY_LIMIT THEN KEY_LIMIT ELSE Len(keys))

RECURSIVE Sanitize(_, _, _, _)
RECURSIVE SanitizeItems(_, _, _, _)
RECURSIVE SanitizeKeys(_, _, _, _, _)

\* value.map(v => sanitize(v, depth + 1)) over items, left to right, as the
\* map of the first half followed by the map of the second; an exception in
\* one item leaves the map
SanitizeItems(heap, items, depth, seen) ==
    IF items = <<>>
    THEN Returned(<<>>, seen)
    ELSE IF Len(items) = 1
    THEN LET r == Sanitize(heap, items[1], depth, seen) IN
         IF r.threw THEN r ELSE Returned(<<r.out>>, r.seen)
    ELSE LET mid == Len(items) \div 2
             left == SanitizeItems(heap, SubSeq(items, 1, mid), depth, seen)
         IN  IF left.threw
             THEN left
             ELSE LET right == SanitizeItems(heap, SubSeq(items, mid + 1, Len(items)),
                                             depth, left.seen)
                  IN  IF right.threw
                      THEN right
                      ELSE Returned(left.out \o right.out, right.seen)

\* the body of the for loop of sanitize for one key, with its try and catch
SanitizeKey(heap, obj, key, depth, seen) ==
    IF StartsWith(key, "_")
    THEN [keys |-> <<>>, vals |-> <<>>, seen |-> seen]
    ELSE LET i == CHOOSE j \in 1..Len(obj.keys) : obj.keys[j] = key
             r == IF key \in obj.throwing
                  THEN Thrown(seen)
                  ELSE Sanitize(heap, obj.vals[i], depth, seen)
         IN  [keys |-> <<key>>,
              vals |-> <<IF r.threw THEN Str("[Error]") ELSE r.out>>,
              seen |-> r.seen]

\* the for loop of sanitize over the retained keys, in their order, as the
\* loop over the first half followed by the loop over the second
SanitizeKeys(heap, obj, keys, depth, seen) ==
    IF keys = <<>>
    THEN [keys |-> <<>>, vals |-> <<>>, seen |-> seen]
    ELSE IF Len(keys) = 1
    THEN SanitizeKey(heap, obj, keys[1], depth, seen)
    ELSE LET mid == Len(keys) \div 2
             left == SanitizeKeys(heap, obj, SubSeq(keys, 1, mid), depth, seen)
             right == SanitizeKeys(heap, obj, SubSeq(keys, mid + 1, Len(keys)),
                                   depth, left.seen)
         IN  [keys |-> left.keys \o right.keys,
              vals |-> left.vals \o right.vals,
              seen |-> right.seen]

\* sanitize(value, depth) of sanitizeProps
Sanitize(heap, value, depth, seen) ==
    IF DepthExceeded(value, depth) THEN Returned(Str("[...]"), seen)
    ELSE IF value.kind \in {"null", "undefined"} THEN Returned(value, seen)
    ELSE IF value.kind = "function"
    THEN Returned(Str("ƒ " \o (IF value.v # "" THEN value.v ELSE "anonymous") \o "()"), seen)
    ELSE IF value.kind = "symbol" THEN Returned(Str(value.v), seen)
    ELSE IF value.kind = "dom" THEN Returned(Str("[DOM]"), seen)
    ELSE IF value.kind = "hostile" THEN Thrown(seen)
    ELSE IF value.kind = "ref"
    THEN IF value.v \in seen
         THEN Returned(Str("[Circular]"), seen)
         ELSE LET obj == heap[value.v]
                  seen2 == seen \cup {value.v}
              IN  IF obj.kind = "react"
                  THEN Returned(Str("<" \o obj.typeName \o " />"), seen2)
                  ELSE IF obj.kind = "array"
                  THEN LET n == Len(obj.items)
                           kept == SubSeq(obj.items, 1,
                                          IF n > ARRAY_LIMIT THEN ARRAY_LIMIT ELSE n)
                           head == SanitizeItems(heap, kept, depth + 1, seen2)
                       IN  IF head.threw
                           THEN head
                           ELSE IF n > ARRAY_LIMIT
                           THEN Returned(Arr(Append(head.out,
                                    Str("..." \o ToString(n - ARRAY_LIMIT) \o " more"))),
                                    head.seen)
                           ELSE Returned(Arr(head.out), head.seen)
                  ELSE LET n == Len(obj.keys)
                           body == SanitizeKeys(heap, obj, RetainedKeys(obj.keys),
                                                depth + 1, seen2)
                       IN  IF n > KEY_LIMIT
                           THEN Returned(Obj(Append(body.keys, "..."),
                                             Append(body.vals,
                                                Str(ToString(n - KEY_LIMIT) \o " more")),
                                             {}),
                                         body.seen)
                           ELSE Returned(Obj(body.keys, body.vals, {}), body.seen)
    ELSE Returned(value, seen)

RECURSIVE SanitizeEntries(_, _, _, _, _)
\* the loop of sanitizeProps over the entries lo..hi of Object.entries(props),
\* as the loop over the first half followed by the loop over the second
SanitizeEntries(heap, props, lo, hi, seen) ==
    IF lo > hi
    THEN [keys |-> <<>>, vals |-> <<>>, seen |-> seen, threw |-> FALSE]
    ELSE IF lo = hi
    THEN LET key == props.keys[lo] IN
         IF key = "children" \/ StartsWith(key, "_")
         THEN [keys |-> <<>>, vals |-> <<>>, seen |-> seen, threw |-> FALSE]
         ELSE LET r == Sanitize(heap, props.vals[lo], 0, seen) IN
              IF r.threw
              THEN [keys |-> <<>>, vals |-> <<>>, seen |-> r.seen, threw |-> TRUE]
              ELSE [keys |-> <<key>>, vals |-> <<r.out>>, seen |-> r.seen,
                    threw |-> FALSE]
    ELSE LET mid == (lo + hi) \div 2
             left == SanitizeEntries(heap, props, lo, mid, seen)
         IN  IF left.threw
             THEN left
             ELSE LET right == SanitizeEntries(heap, props, mid + 1, hi, left.seen) IN
                  [keys  |-> left.keys \o right.keys,
                   vals  |-> left.vals \o right.vals,
                   seen  |-> right.seen,
                   threw |-> right.threw]

\* sanitizeProps(props): what it returns, or that it raised an exception.
\* Object.entries reads every property before the loop starts
SanitizeProps(heap, props) ==
    IF props.kind # "ref" \/ heap[props.v].kind # "object"
    THEN [threw |-> FALSE, out |-> Obj(<<>>, <<>>, {})]
    ELSE LET top == heap[props.v] IN
         IF top.throwing # {}
         THEN [threw |-> TRUE, out |-> Undefined]
         ELSE LET r == SanitizeEntries(heap, top, 1, Len(top.keys), {}) IN
              IF r.threw
              THEN [threw |-> TRUE, out |-> Undefined]
              ELSE [threw |-> FALSE, out |-> Obj(r.keys, r.vals, {})]

RECURSIVE JsonStringify(_)
RECURSIVE JsonItems(_, _, _)
RECURSIVE JsonMembers(_, _, _, _)

\* the items lo..hi of an array, separated by commas; undefined is written
\* as null
JsonItems(items, lo, hi) ==
    IF lo > hi THEN ""
    ELSE IF lo = hi
    THEN (IF items[lo].kind = "undefined" THEN "null" ELSE JsonStringify(items[lo]))
    ELSE LET mid == (lo + hi) \div 2 IN
         JsonItems(items, lo, mid) \o "," \o JsonItems(items, mid + 1, hi)

\* the positions of the members JSON.stringify writes: those whose value is
\* not undefined
WrittenMembers(obj) ==
    SelectSeq([i \in 1..Len(obj.keys) |-> i], LAMBDA i : obj.vals[i].kind # "undefined")

\* the members at the positions at[lo..hi], separated by commas
JsonMembers(obj, at, lo, hi) ==
    IF lo > hi THEN ""
    ELSE IF lo = hi
    THEN "\"" \o obj.keys[at[lo]] \o "\":" \o JsonStringify(obj.vals[at[lo]])
    ELSE LET mid == (lo + hi) \div 2 IN
         JsonMembers(obj, at, lo, mid) \o "," \o JsonMembers(obj, at, mid + 1, hi)

\* JSON.stringify of a sanitized value (strings without characters that
\* need escaping)
JsonStringify(value) ==
    IF value.kind = "string" THEN "\"" \o value.v \o "\""
    ELSE IF value.kind = "number" THEN ToString(value.v)
    ELSE IF value.kind = "boolean" THEN (IF value.v THEN "true" ELSE "false")
    ELSE IF value.kind = "null" THEN "null"
    ELSE IF value.kind = "array" THEN "[" \o JsonItems(value.items, 1, Len(value.items)) \o "]"
    ELSE "{" \o JsonMembers(value, WrittenMembers(value), 1, Len(WrittenMembers(value))) \o "}"

\* the body of the loop of generateJSX: what one property adds to the markup.
\* The properties are sanitized, so none is a function
JsxAttribute(key, value) ==
    IF value.kind = "string" THEN " " \o key \o "=\"" \o value.v \o "\""
    ELSE IF value.kind = "boolean" /\ value.v THEN " " \o key
    ELSE IF value.kind = "number" THEN " " \o key \o "={" \o ToString(value.v) \o "}"
    ELSE IF value.kind \notin {"null", "undefined"}
    THEN LET str == JsonStringify(value) IN
         IF Len(str) < INLINE_LIMIT
         THEN " " \o key \o "={" \o str \o "}"
         ELSE " " \o key \o "={...}"
    ELSE ""

RECURSIVE JsxAttributes(_, _, _)
\* the loop of generateJSX over the properties lo..hi
JsxAttributes(props, lo, hi) ==
    IF lo > hi THEN ""
    ELSE IF lo = hi THEN JsxAttribute(props.keys[lo], props.vals[lo])
    ELSE LET mid == (lo + hi) \div 2 IN
         JsxAttributes(props, lo, mid) \o JsxAttributes(props, mid + 1, hi)

\* generateJSX for a component found: element gives the number of child
\* elements and the trimmed text content of the DOM node
GenerateJSX(element, name, props) ==
    LET open == "<" \o name \o JsxAttributes(props, 1, Len(props.keys))
        hasChildren == element.children > 0 \/ Len(element.text) > 0
    IN  IF hasChildren
        THEN open \o ">"
             \o (IF element.children = 0
                 THEN (IF Len(element.text) > TEXT_LIMIT
                       THEN SubSeq(element.text, 1, TEXT_LIMIT) \o "..."
                       ELSE element.text)
                 ELSE "...")
             \o "</" \o name \o ">"
        ELSE open \o " />"

(***************************************************************************)
(* The property objects the sanitizer is checked on.  props is heap[1]; a  *)
(* chain of nest objects leads from its key data to a payload, which is    *)
(* thereby handed to sanitize at depth nest.                               *)
(***************************************************************************)
Hostile == Leaf("hostile", NULL)
\* an object of n numbered keys
WideObj(n) == Obj([i \in 1..n |-> "k" \o ToString(i)], [i \in 1..n |-> Num(i)], {})
\* an object of n numbered keys whose second key is private
WidePrivateObj(n) ==
    Obj([i \in 1..n |-> IF i = 2 THEN "_k2" ELSE "k" \o ToString(i)],
        [i \in 1..n |-> Num(i)], {})
NumArr(n) == Arr([i \in 1..n |-> Num(i)])

\* the payloads, numbered: values of every type sanitize tells apart, then
\* objects of the heap, then references back to props and to the holder
LeafPayloads ==
    <<Str("Ann"), Num(1), Leaf("boolean", TRUE), Leaf("null", NULL), Undefined,
      Leaf("function", ""), Leaf("function", "handleClick"),
      Leaf("symbol", "Symbol(id)"), Leaf("dom", NULL), Hostile>>
OwnPayloads ==
    <<WideObj(0), WideObj(KEY_LIMIT), WideObj(KEY_LIMIT + 1), WideObj(MaxKeys),
      WidePrivateObj(MaxKeys),
      NumArr(0), NumArr(ARRAY_LIMIT), NumArr(ARRAY_LIMIT + 1), NumArr(MaxItems),
      ReactElement("Icon"),
      Obj(<<"a", "b", "c">>, <<Num(1), Num(2), Num(3)>>, {"b"}),
      Obj(<<"a", "w", "c">>, <<Num(1), Hostile, Num(3)>>, {}),
      Arr(<<Num(1), Hostile>>)>>
BackPayloads == <<"props", "holder">>
Payload(id) ==
    IF id <= Len(LeafPayloads)
    THEN [kind |-> "leaf", value |-> LeafPayloads[id]]
    ELSE IF id <= Len(LeafPayloads) + Len(OwnPayloads)
    THEN [kind |-> "own", value |-> OwnPayloads[id - Len(LeafPayloads)]]
    ELSE [kind |-> "back",
          value |-> BackPayloads[id - Len(LeafPayloads) - Len(OwnPayloads)]]

\* the heap in which props.data leads through nest objects to the payload
ChainHeap(nest, payload) ==
    LET last == nest + 1
        value == IF payload.kind = "leaf" THEN payload.value
                 ELSE IF payload.kind = "own" THEN Ref(last + 1)
                 ELSE IF payload.value = "props" THEN Ref(1) ELSE Ref(last)
        size == IF payload.kind = "own" THEN last + 1 ELSE last
    IN  [i \in 1..size |->
           IF i = 1
           THEN Obj(<<"name", "data">>,
                    <<Str("Ann"), IF last = 1 THEN value ELSE Ref(2)>>, {})
           ELSE IF i <= last
           THEN Obj(<<"next">>, <<IF i = last THEN value ELSE Ref(i + 1)>>, {})
           ELSE payload.value]

\* property objects that are themselves wide, private, unreadable, or the
\* UserCard of the documentation
TopHeaps ==
    <<<<WideObj(KEY_LIMIT + 1)>>,
      <<WideObj(MaxKeys)>>,
      <<Obj(<<"name", "children", "_owner", "title">>,
            <<Str("Ann"), Str("x"), Num(1), Str("Dr")>>, {})>>,
      <<Obj(<<"name", "size">>, <<Str("Ann"), Num(2)>>, {"size"})>>,
      <<Obj(<<"name", "onClick", "items">>,
            <<Str("Ann"), Leaf("function", ""), Ref(2)>>, {}),
        NumArr(6)>>>>

\* the place in TopHeaps of the UserCard of the documentation
UserCardHeap == 5

\* the inputs, numbered: every payload at every nesting, then TopHeaps
NumChainHeaps == (MaxNest + 1) * Len(LeafPayloads \o OwnPayloads \o BackPayloads)
SanHeapIds == 1..(NumChainHeaps + Len(TopHeaps))
SanHeap(id) ==
    IF id <= NumChainHeaps
    THEN ChainHeap((id - 1) % (MaxNest + 1), Payload(((id - 1) \div (MaxNest + 1)) + 1))
    ELSE TopHeaps[id - NumChainHeaps]

\* the DOM node of the component: its child elements and trimmed text
SanElements ==
    {[children |-> 0, text |-> ""], [children |-> 0, text |-> "Ann"],
     [children |-> 2, text |-> "Ann"]}

\* no getComponentInfo call is being followed
NoSan ==
    [phase |-> "idle", id |-> 0, heap |-> <<>>, props |-> Undefined, name |-> NULL,
     element |-> [children |-> 0, text |-> ""],
     result |-> [threw |-> FALSE, out |-> Undefined], jsx |-> NULL]

\* getComponentInfo is about to sanitize the memoizedProps of a UserCard
SanStart(id, element) ==
    [NoSan EXCEPT !.phase = "input", !.id = id, !.heap = SanHeap(id), !.props = Ref(1),
                  !.name = "UserCard", !.element = element]

(***************************************************************************)
(* The page script's resolution of an element to its component.            *)
(***************************************************************************)
EXCLUDED_COMPONENTS ==
    {"Fragment", "Suspense", "StrictMode", "Profiler", "Provider", "Consumer", "Context",
     "Portal", "Boundary", "ErrorBoundary", "ForwardRef", "Memo", "Lazy"}
EXCLUDED_PREFIXES == {"_", "$"}
UpperCase ==
    {"A", "B", "C", "D", "E", "F", "G", "H", "I", "J", "K", "L", "M", "N", "O", "P", "Q",
     "R", "S", "T", "U", "V", "W", "X", "Y", "Z"}

\* a fiber: typeof its type ("null" for a type that is falsy), the names its
\* type carries ("" where it has none), and what the fiber is in React's
\* terms: a host element, an internal construct, a user's named component,
\* or a component without a usable name
Fiber(typeOf, displayName, name, renderName, innerName, role) ==
    [typeOf |-> typeOf, displayName |-> displayName, name |-> name,
     renderName |-> renderName, innerName |-> innerName, role |-> role]

\* the fibers the chains are made of
FiberKinds ==
    <<Fiber("string", "", "", "", "", "host"),
      Fiber("null", "", "", "", "", "internal"),
      Fiber("symbol", "", "", "", "", "internal"),
      Fiber("object", "", "", "", "", "internal"),
      Fiber("function", "", "Fragment", "", "", "internal"),
      Fiber("object", "ErrorBoundary", "", "", "", "internal"),
      Fiber("function", "", "_Hidden", "", "", "internal"),
      Fiber("function", "", "", "", "", "unnamed"),
      Fiber("function", "", "helper", "", "", "unnamed"),
      Fiber("function", "", "UserCard", "", "", "component"),
      Fiber("function", "NavBar", "a", "", "", "component"),
      Fiber("object", "", "", "Input", "", "component"),
      Fiber("object", "", "", "", "UserCard", "component")>>

\* the return chains, each a sequence of positions in FiberKinds
FiberChains ==
    UNION {[1..n -> 1..Len(FiberKinds)] : n \in 1..MaxChain}

\* getComponentName
GetComponentName(fiber) ==
    IF fiber.typeOf = "null" THEN ""
    ELSE IF fiber.typeOf = "function"
    THEN (IF fiber.displayName # "" THEN fiber.displayName ELSE fiber.name)
    ELSE IF fiber.typeOf = "object"
    THEN (IF fiber.displayName # "" THEN fiber.displayName
          ELSE IF fiber.renderName # "" THEN fiber.renderName
          ELSE fiber.innerName)
    ELSE ""

\* a faulty isValidComponent that has lost its list of internal names
IsValidComponentWithoutList(fiber) ==
    LET name == GetComponentName(fiber) IN
    /\ fiber.typeOf \in {"function", "object"}
    /\ name # ""
    /\ \A prefix \in EXCLUDED_PREFIXES : ~StartsWith(name, prefix)
    /\ SubSeq(name, 1, 1) \in UpperCase

\* isValidComponent
IsValidComponent(fiber) ==
    LET name == GetComponentName(fiber) IN
    /\ fiber.typeOf \in {"function", "object"}
    /\ name # ""
    /\ name \notin EXCLUDED_COMPONENTS
    /\ \A prefix \in EXCLUDED_PREFIXES : ~StartsWith(name, prefix)
    /\ SubSeq(name, 1, 1) \in UpperCase

\* findComponentFiber(fiber, isValidComponent) along the return chain: the
\* position of the fiber found, 0 for null
FindComponentFiber(chain) ==
    LET valid == {i \in 1..Len(chain) : IsValidComponent(FiberKinds[chain[i]])} IN
    IF valid = {} THEN 0 ELSE CHOOSE i \in valid : \A j \in valid : i <= j

\* no resolution is being followed
NoFib == [phase |-> "idle", chain |-> <<>>, found |-> 0, name |-> ""]

(***************************************************************************)
(* The editor's side: the extension and its WebSocket server.              *)
(*                                                                         *)
(* servers are the underlying ws servers in their order of creation, each  *)
(* with its port, its state and the instance that created it; insts are    *)
(* the WebSocketServer instances, current the one extension.ts holds in    *)
(* websocketServer; socks are the connections of the browser clients as    *)
(* the server has them; msgs are the messages received, out the frames     *)
(* sent, each with the message it answers (0 for the status frame of       *)
(* handleConnection); prompts are the questions of the configuration       *)
(* listener that wait for an answer, each with the port read when it was   *)
(* asked, and restarted is the port of the last restart, until a command   *)
(* starts or stops the server again.                                       *)
(***************************************************************************)
Clients == 1..MaxClients
ServerPorts == {WS_PORTS[1], WS_PORTS[2]}

\* handlePromptMessage: the type and text of the reply to a prompt frame.
\* executes tells whether the assistant's commands ran without an exception;
\* executePrompt itself throws on a prompt that is blank after trim()
HandlePromptMessage(m, executes) ==
    IF m.prompt = <<>>
    THEN [type |-> "error", message |-> "No prompt provided"]
    ELSE IF Trim(m.prompt) # <<>> /\ executes
    THEN [type |-> "success", message |-> "Prompt executed successfully"]
    ELSE [type |-> "error", message |-> "Failed to execute prompt in " \o
                       (IF m.target = "claude" THEN "Claude Code" ELSE "Copilot Chat")]

\* what a client sends: the kinds handleConnection and handleMessage tell
\* apart.  "null" is text that parses to null; a prompt message carries a
\* prompt, the others none
MessageKinds ==
    {"unparsable", "null", "prompt", "ping", "element-context", "no-element-context",
     "unknown"}
ServerPrompts == {<<>>, <<"f", "i", "x">>}

Frame(to, re, type, message) == [to |-> to, re |-> re, type |-> type, message |-> message]

\* sendMessage: a frame goes out only on an open socket
SendMessage(e, to, re, reply) ==
    IF e.socks[to].state = "OPEN"
    THEN [e EXCEPT !.out = Append(@, Frame(to, re, reply.type, reply.message))]
    ELSE e

\* a faulty handleMessage whose default branch only logs
HandleMessageIgnoresUnknown(kind, prompt) ==
    CASE kind = "null" -> [does |-> "throw"]
      [] kind = "prompt" ->
            IF prompt = <<>>
            THEN [does |-> "reply", type |-> "error", message |-> "No prompt provided"]
            ELSE [does |-> "await"]
      [] kind = "ping" -> [does |-> "reply", type |-> "pong", message |-> NULL]
      [] kind = "element-context" ->
            [does |-> "reply", type |-> "success", message |-> "Element context received"]
      [] kind = "no-element-context" ->
            [does |-> "reply", type |-> "error", message |-> "No element context provided"]
      [] OTHER -> [does |-> "nothing"]

\* handleMessage up to its first suspension: it replies, it throws (reading
\* the type of null), or it waits for executePrompt
HandleMessage(kind, prompt) ==
    CASE kind = "null" -> [does |-> "throw"]
      [] kind = "prompt" ->
            IF prompt = <<>>
            THEN [does |-> "reply", type |-> "error", message |-> "No prompt provided"]
            ELSE [does |-> "await"]
      [] kind = "ping" -> [does |-> "reply", type |-> "pong", message |-> NULL]
      [] kind = "element-context" ->
            [does |-> "reply", type |-> "success", message |-> "Element context received"]
      [] kind = "no-element-context" ->
            [does |-> "reply", type |-> "error", message |-> "No element context provided"]
      [] OTHER -> [does |-> "reply", type |-> "error", message |-> "Unknown message type"]

\* the listener of 'message' in handleConnection: JSON.parse, handleMessage,
\* and the catch around both
OnMessage(e, from, kind, prompt, target) ==
    LET n == Len(e.msgs) + 1
        received(phase) ==
            [e EXCEPT !.msgs = Append(@, [from |-> from, kind |-> kind, prompt |-> prompt,
                                          target |-> target, phase |-> phase,
                                          openAtEnd |-> TRUE])]
        failed == [type |-> "error", message |-> "Failed to process message"]
        h == HandleMessage(kind, prompt)
    IN  IF kind = "unparsable" \/ h.does = "throw"
        THEN SendMessage(received("done"), from, n, failed)
        ELSE IF h.does = "await" THEN received("executing")
        ELSE IF h.does = "reply"
        THEN SendMessage(received("done"), from, n, [type |-> h.type, message |-> h.message])
        ELSE received("done")

\* handlePromptMessage after executePrompt has settled
OnPromptSettled(e, n, executes) ==
    LET m == e.msgs[n]
        a == [e EXCEPT !.msgs[n].phase = "done",
                       !.msgs[n].openAtEnd = (e.socks[m.from].state = "OPEN")]
    IN  SendMessage(a, m.from, n, HandlePromptMessage(m, executes))

NoExt ==
    [servers |-> <<>>,
     insts   |-> <<>>,
     current |-> 0,
     prompts |-> <<>>,
     restarted |-> NoPort,
     socks   |-> [c \in Clients |-> [server |-> 0, state |-> "NONE"]],
     msgs    |-> <<>>,
     out     |-> <<>>]

\* the port is held by a server that has bound it and has not closed it
PortHeld(e, port) ==
    \E s \in 1..Len(e.servers) :
        e.servers[s].port = port /\ e.servers[s].state \in {"bound", "listening"}

\* a faulty start() that turns to the other port when the bind is refused
NewServerOnFreePort(e, i) ==
    LET port == IF PortHeld(e, e.insts[i].port)
                THEN CHOOSE p \in ServerPorts : p # e.insts[i].port
                ELSE e.insts[i].port
    IN  [e EXCEPT !.servers = Append(@, [port  |-> port,
                                         state |-> IF PortHeld(e, port)
                                                   THEN "refused" ELSE "bound",
                                         owner |-> i]),
                  !.insts[i].wss = Len(e.servers) + 1]

\* new WSServer({ port }): the port is bound at once, or the bind is
\* refused; 'listening' or 'error' is emitted later
NewServer(e, i) ==
    [e EXCEPT !.servers = Append(@, [port  |-> e.insts[i].port,
                                     state |-> IF PortHeld(e, e.insts[i].port)
                                               THEN "refused" ELSE "bound",
                                     owner |-> i]),
              !.insts[i].wss = Len(e.servers) + 1]

\* start()
Start(e, i) == IF e.insts[i].running THEN e ELSE NewServer(e, i)

\* stop(): the clients are told to close, the server is closed and forgotten;
\* running falls in the callback of close
Stop(e, i) ==
    LET inst == e.insts[i] IN
    IF ~inst.running \/ inst.wss = 0 THEN e
    ELSE [e EXCEPT
            !.socks = [c \in Clients |->
                         IF c \in inst.clients /\ e.socks[c].state = "OPEN"
                         THEN [e.socks[c] EXCEPT !.state = "CLOSING"] ELSE e.socks[c]],
            !.insts[i].clients = {},
            !.servers[inst.wss].state = IF @ = "closed" THEN "closed" ELSE "closing",
            !.insts[i].wss = 0]

\* new WebSocketServer(port, ...), held in websocketServer from now on
NewInstance(e, port) ==
    [e EXCEPT !.insts = Append(@, [port |-> port, running |-> FALSE, wss |-> 0,
                                   clients |-> {}]),
              !.current = Len(e.insts) + 1]

\* the 'Restart' branch of the configuration listener
Restart(e, newPort) ==
    LET stopped == Stop(e, e.current)
        created == NewInstance(stopped, newPort)
    IN  [Start(created, created.current) EXCEPT !.restarted = newPort]

\* activate(): the instance for the configured port, started when autoStart
Activated(port, autoStart) ==
    LET created == NewInstance(NoExt, port)
    IN  IF autoStart THEN Start(created, 1) ELSE created

\* a server that listens on 9765 with every client connected and greeted
ServingExt ==
    [NoExt EXCEPT
       !.servers = <<[port |-> WS_PORTS[1], state |-> "listening", owner |-> 1]>>,
       !.insts   = <<[port |-> WS_PORTS[1], running |-> TRUE, wss |-> 1,
                      clients |-> Clients]>>,
       !.current = 1,
       !.socks   = [c \in Clients |-> [server |-> 1, state |-> "OPEN"]],
       !.out     = [c \in Clients |->
                      Frame(c, 0, "status", "Connected to React Grab VSCode Extension")]]

(***************************************************************************)
(* CopilotIntegration: handing a prompt to an assistant.  env is what the  *)
(* editor answers: getCommands on its two calls, the chat command, the     *)
(* four commands of Claude extensions, the terminal, the Copilot extension.*)
(***************************************************************************)
CopPrompts == {<<>>, <<" ">>, <<"f", "i", "x">>}
CopTargets == {"copilot", "claude"}
CommandStates == {"absent", "works", "throws"}

\* claudeCommands of tryClaudeExtensionCommands, in the order of the loop
ClaudeCommands == <<"claude.newSession", "claude.openPanel", "anthropic.claude.chat",
                    "claude-dev.openChat">>

CopEnvs ==
    [commands1 : BOOLEAN, chatOpen : CommandStates,
     commands2 : BOOLEAN, claude : [1..Len(ClaudeCommands) -> CommandStates],
     terminal : BOOLEAN, copilot : {"missing", "inactive", "active"}]

Attempt(method, result) == [method |-> method, result |-> result]
Delivered(tried) == [outcome |-> "returned", error |-> NULL, tried |-> tried]
Rejected(error, tried) == [outcome |-> "thrown", error |-> error, tried |-> tried]

\* tryVSCodeChatWithClaude: true when the chat command is listed and runs;
\* whatever is thrown is caught
TryVSCodeChatWithClaude(env) ==
    IF env.commands1 /\ env.chatOpen = "works" THEN "true" ELSE "false"

\* tryClaudeExtensionCommands: getCommands is awaited outside any try; the
\* loop goes on after a command that throws
TryClaudeExtensionCommands(env) ==
    IF ~env.commands2 THEN "throws"
    ELSE IF \E k \in 1..Len(ClaudeCommands) : env.claude[k] = "works" THEN "true"
    ELSE "false"

\* executeClaudeCli: true unless the terminal cannot be had
ExecuteClaudeCli(env) == IF env.terminal THEN "true" ELSE "false"

\* executeClaude
ExecuteClaude(env, preferCli) ==
    LET cli    == Attempt("cli", ExecuteClaudeCli(env))
        chat   == Attempt("chat", TryVSCodeChatWithClaude(env))
        cmds   == Attempt("ext", TryClaudeExtensionCommands(env))
        first  == IF preferCli THEN <<cli>> ELSE <<>>
        second == Append(first, chat)
        third  == Append(second, cmds)
        fourth == Append(third, cli)
    IN  IF preferCli /\ cli.result = "true" THEN Delivered(first)
        ELSE IF chat.result = "true" THEN Delivered(second)
        ELSE IF cmds.result = "throws" THEN Rejected("getCommands", third)
        ELSE IF cmds.result = "true" THEN Delivered(third)
        ELSE IF ~preferCli /\ cli.result = "true" THEN Delivered(fourth)
        ELSE Rejected("Could not send prompt to Claude Code",
                    IF preferCli THEN third ELSE fourth)

\* executeCopilot
ExecuteCopilot(env) ==
    IF env.copilot = "missing"
    THEN Rejected("GitHub Copilot Chat extension is not installed", <<>>)
    ELSE IF env.chatOpen = "works" THEN Delivered(<<Attempt("copilot", "true")>>)
    ELSE Rejected("workbench.action.chat.open", <<Attempt("copilot", "throws")>>)

\* executePrompt: what the catch logs is thrown again
ExecutePrompt(prompt, target, env, preferCli) ==
    IF Trim(prompt) = <<>> THEN Rejected("Prompt cannot be empty", <<>>)
    ELSE IF target = "claude" THEN ExecuteClaude(env, preferCli)
    ELSE ExecuteCopilot(env)

NoCop ==
    [phase |-> "idle", prompt |-> <<>>, target |-> "copilot", preferCli |-> FALSE,
     env |-> [commands1 |-> TRUE, chatOpen |-> "absent", commands2 |-> TRUE,
              claude |-> [k \in 1..Len(ClaudeCommands) |-> "absent"],
              terminal |-> TRUE, copilot |-> "missing"],
     result |-> Delivered(<<>>)]


(***************************************************************************)
(* Initial state: init() has run on an enabled host, so the first          *)
(* connectToAllPorts has created one socket per port.                      *)
(***************************************************************************)
\* Alt is up.  While it is down, ended tells that grab mode was ended by
\* Escape or by a committing click since Alt went down, and blurred that the
\* window lost focus before the pending hold timeout was due.
KeyUp == [down |-> FALSE, heldMs |-> 0, ended |-> FALSE, blurred |-> FALSE]


InitCs ==
    [isGrabMode      |-> FALSE,
     keyDownTime     |-> NULL,
     keyHoldTimer    |-> NULL,
     timeout         |-> [pending |-> FALSE, left |-> 0],
     currentContext  |-> NULL,
     mouse           |-> "corner",
     requestId       |-> 0,
     pendingRequests |-> {},
     msgQueue        |-> <<>>,
     overlay         |-> [display |-> "none", rect |-> NULL],
     label           |-> [display |-> "none", text |-> NULL],
     crosshair       |-> "none",
     cursor          |-> ""]

\* the scripts after their initialisation
InitCore ==
    /\ cs = InitCs
    /\ kbd = KeyUp
    /\ cancelled = FALSE
    /\ dialog = ClosedDialog
    /\ connections = <<>>
    /\ extensionEnabled = TRUE
    /\ sockets = ConnectToAllPorts(<<>>, [id \in SockIds |-> "NONE"], TRUE)
    /\ lastCall = NoCall
    /\ wire = {}
    /\ discarded = {}
    /\ awaiting = [id \in SockIds |-> {}]
    /\ notice = NoNotice
    /\ single = InitSingle

Init ==
    /\ InitCore
    /\ san = NoSan
    /\ fib = NoFib
    /\ ext = NoExt
    /\ cop = NoCop

\* a getComponentInfo call on any of the property objects
InitSan ==
    /\ InitCore
    /\ \E id \in SanHeapIds, element \in SanElements : san = SanStart(id, element)
    /\ fib = NoFib
    /\ ext = NoExt
    /\ cop = NoCop

\* a getComponentInfo call on an element under any chain of fibers
InitFib ==
    /\ InitCore
    /\ san = NoSan
    /\ \E chain \in FiberChains : fib = [NoFib EXCEPT !.phase = "input", !.chain = chain]
    /\ ext = NoExt
    /\ cop = NoCop

\* activate() has returned
InitLife ==
    /\ InitCore
    /\ san = NoSan
    /\ fib = NoFib
    /\ \E port \in ServerPorts, autoStart \in BOOLEAN : ext = Activated(port, autoStart)
    /\ cop = NoCop

\* the server with its clients connected
InitMsg ==
    /\ InitCore
    /\ san = NoSan
    /\ fib = NoFib
    /\ ext = ServingExt
    /\ cop = NoCop

\* an executePrompt call with any prompt, target, setting and editor
InitCop ==
    /\ InitCore
    /\ san = NoSan
    /\ fib = NoFib
    /\ ext = NoExt
    /\ \E prompt \in CopPrompts, target \in CopTargets, preferCli \in BOOLEAN, env \in CopEnvs :
          cop = [NoCop EXCEPT !.phase = "input", !.prompt = prompt, !.target = target,
                              !.preferCli = preferCli, !.env = env]

(***************************************************************************)
(* Key, timer, mouse and window events.  v is the script generation.       *)
(***************************************************************************)
Min(a, b) == IF a < b THEN a ELSE b
Max(a, b) == IF a > b THEN a ELSE b

\* time passes while the hold timeout is pending
Tick ==
    /\ cs.timeout.pending /\ cs.timeout.left > 0
    /\ cs' = [cs EXCEPT !.timeout.left = Max(@ - TickMs, 0)]
    /\ kbd' = IF kbd.down
              THEN [kbd EXCEPT !.heldMs = Min(@ + TickMs, KEY_HOLD_DURATION)]
              ELSE kbd
    /\ UNCHANGED <<cancelled, dialog, relayVars, auxVars>>

\* the setTimeout callback of handleKeyDown
HoldTimerFires ==
    /\ cs.timeout.pending /\ cs.timeout.left = 0
    /\ cs.isGrabMode \/ cs.requestId < MaxRequestId
    /\ cs' = ActivateGrabMode([cs EXCEPT !.timeout.pending = FALSE])
    /\ cancelled' = FALSE
    /\ UNCHANGED <<kbd, dialog, relayVars, auxVars>>

\* keydown of Alt, the first or an auto-repeat
AltKeyDown(v) ==
    /\ cs' = HandleKeyDown(v, cs, "Alt")
    /\ LET k == IF kbd.down THEN kbd ELSE [KeyUp EXCEPT !.down = TRUE] IN
       kbd' = IF ~cs.isGrabMode /\ cs.keyDownTime = NULL
              THEN [k EXCEPT !.blurred = FALSE]
              ELSE k
    /\ UNCHANGED <<cancelled, dialog, relayVars, auxVars>>

AltKeyUp(v) ==
    /\ kbd.down
    /\ cs' = HandleKeyUp(v, cs, "Alt")
    /\ kbd' = KeyUp
    /\ UNCHANGED <<cancelled, dialog, relayVars, auxVars>>

\* keydown of Escape: the content script's capturing listener stops the event
\* when it deactivates grab mode; otherwise it reaches the dialog's listener
EscapeKeyDown(v) ==
    /\ cs.isGrabMode \/ dialog.open
    /\ cs' = HandleKeyDown(v, cs, "Escape")
    /\ dialog' = IF ~cs.isGrabMode /\ dialog.open THEN ClosedDialog ELSE dialog
    /\ cancelled' = (cancelled \/ cs.isGrabMode)
    /\ kbd' = IF cs.isGrabMode /\ kbd.down THEN [kbd EXCEPT !.ended = TRUE] ELSE kbd
    /\ UNCHANGED <<relayVars, auxVars>>

\* window blur
WindowBlur(v) ==
    /\ cs' = Deactivate(v, cs)
    /\ cancelled' = (cancelled \/ cs.isGrabMode)
    /\ kbd' = IF cs.timeout.pending /\ cs.timeout.left > 0 /\ ~cs.isGrabMode
              THEN [kbd EXCEPT !.blurred = TRUE]
              ELSE kbd
    /\ UNCHANGED <<dialog, relayVars, auxVars>>

MouseMove(p) ==
    /\ ~cs.isGrabMode \/ cs.requestId < MaxRequestId
    /\ cs' = HandleMouseMove(cs, p)
    /\ UNCHANGED <<kbd, cancelled, dialog, relayVars, auxVars>>

\* handleClick
Click(v) ==
    /\ cs.isGrabMode
    /\ IF cs.currentContext # NULL
       THEN /\ cs' = HideOverlay(Deactivate(v, cs))
            /\ dialog' = IF v = LEGACY
                         THEN LegacyShowComponentDialog(cs.currentContext)
                         ELSE ShowComponentDialog(dialog, cs.currentContext,
                                  GetConnectedWorkspaces(connections, sockets))
            /\ kbd' = IF kbd.down THEN [kbd EXCEPT !.ended = TRUE] ELSE kbd
       ELSE UNCHANGED <<cs, kbd, dialog>>
    /\ UNCHANGED <<cancelled, relayVars, auxVars>>

(***************************************************************************)
(* Delivery of the window's message events, in the order posted.           *)
(***************************************************************************)
DeliverRequest ==
    /\ cs.msgQueue # <<>>
    /\ Head(cs.msgQueue).type = "GRAB_GET_ELEMENT_AT_POINT"
    /\ cs' = InjectOnGetElementAtPoint([cs EXCEPT !.msgQueue = Tail(@)], Head(cs.msgQueue))
    /\ UNCHANGED <<kbd, cancelled, dialog, relayVars, auxVars>>

DeliverFound(v) ==
    /\ cs.msgQueue # <<>>
    /\ Head(cs.msgQueue).type = "GRAB_ELEMENT_FOUND"
    /\ cs' = IF v = LEGACY
             THEN LegacyOnElementFound([cs EXCEPT !.msgQueue = Tail(@)], Head(cs.msgQueue))
             ELSE OnElementFound([cs EXCEPT !.msgQueue = Tail(@)], Head(cs.msgQueue))
    /\ UNCHANGED <<kbd, cancelled, dialog, relayVars, auxVars>>

DeliverNotFound ==
    /\ cs.msgQueue # <<>>
    /\ Head(cs.msgQueue).type = "GRAB_ELEMENT_NOT_FOUND"
    /\ cs' = OnElementNotFound([cs EXCEPT !.msgQueue = Tail(@)], Head(cs.msgQueue))
    /\ UNCHANGED <<kbd, cancelled, dialog, relayVars, auxVars>>

(***************************************************************************)
(* Socket events, polling and the popup's toggle.                          *)
(***************************************************************************)
\* the setInterval callback of startConnectionPolling
PollTick ==
    /\ extensionEnabled
    /\ CanPoll(connections, sockets)
    /\ sockets' = ConnectToAllPorts(connections, sockets, extensionEnabled)
    /\ UNCHANGED <<grabVars, dialog, connections, extensionEnabled, lastCall, wire, discarded, awaiting, notice, auxVars>>

\* a faulty ws.onopen that transmits the frames of the calls that had found
\* no endpoint on the socket that opens
WsOnOpenFlushes(id) ==
    /\ sockets[id] = "CONNECTING"
    /\ sockets' = [sockets EXCEPT ![id] = "OPEN"]
    /\ connections' = MapSet(connections, id[1], id)
    /\ wire' = wire \cup {[id |-> d, ws |-> id] : d \in discarded}
    /\ UNCHANGED <<grabVars, dialog, extensionEnabled, lastCall, discarded, awaiting, notice, auxVars>>

\* ws.onopen
WsOnOpen(id) ==
    /\ sockets[id] = "CONNECTING"
    /\ sockets' = [sockets EXCEPT ![id] = "OPEN"]
    /\ connections' = MapSet(connections, id[1], id)
    /\ UNCHANGED <<grabVars, dialog, extensionEnabled, lastCall, wire, discarded, awaiting, notice, auxVars>>

\* a faulty ws.onerror that leaves the entry of the port in connections
WsOnErrorKeepsEntry(id) ==
    /\ sockets[id] = "CONNECTING"
    /\ sockets' = [sockets EXCEPT ![id] = "NONE"]
    /\ UNCHANGED <<grabVars, dialog, connections, extensionEnabled, lastCall, wire, discarded, awaiting, notice, auxVars>>

\* a connection attempt fails: ws.onerror, then ws.onclose
WsOnError(id) ==
    /\ sockets[id] = "CONNECTING"
    /\ sockets' = [sockets EXCEPT ![id] = "NONE"]
    /\ connections' = MapDelete(connections, id[1])
    /\ UNCHANGED <<grabVars, dialog, extensionEnabled, lastCall, wire, discarded, awaiting, notice, auxVars>>

\* ws.onclose of a socket that was open or that close() was called on
WsOnClose(id) ==
    /\ sockets[id] \in {"OPEN", "CLOSING"}
    /\ sockets' = [sockets EXCEPT ![id] = "NONE"]
    /\ connections' = MapDelete(connections, id[1])
    /\ awaiting' = [awaiting EXCEPT ![id] = {}]
    /\ UNCHANGED <<grabVars, dialog, extensionEnabled, lastCall, wire, discarded, notice, auxVars>>

\* handleServerMessage: the notification shown for a reply
HandleServerMessage(reply) ==
    IF reply.type = "success"
    THEN [text |-> "Prompt sent successfully!", kind |-> "success"]
    ELSE [text |-> reply.message, kind |-> "error"]

\* one handlePromptMessage of the connection's server finishes and its reply,
\* which names no prompt, reaches ws.onmessage.  The handlers of a
\* connection run concurrently and finish in any order
ServerReply(id, executes) ==
    /\ sockets[id] = "OPEN"
    /\ \E m \in awaiting[id] :
          /\ awaiting' = [awaiting EXCEPT ![id] = @ \ {m}]
          /\ notice' = HandleServerMessage(HandlePromptMessage(m, executes))
    /\ UNCHANGED <<grabVars, dialog, sockets, connections, extensionEnabled, lastCall, wire,
                   discarded, auxVars>>

\* chrome.runtime.onMessage, request.type = 'toggleExtension'
ToggleExtension(enabled) ==
    /\ extensionEnabled' = enabled
    /\ IF ~enabled
       THEN /\ sockets' = [id \in SockIds |->
                            IF HasPort(connections, id[1]) /\ GetConn(connections, id[1]).ws = id
                               /\ sockets[id] \in {"CONNECTING", "OPEN"}
                            THEN "CLOSING" ELSE sockets[id]]
            /\ connections' = <<>>
       ELSE /\ CanPoll(connections, sockets)
            /\ sockets' = ConnectToAllPorts(connections, sockets, enabled)
            /\ UNCHANGED connections
    /\ UNCHANGED <<grabVars, dialog, lastCall, wire, discarded, awaiting, notice, auxVars>>

(***************************************************************************)
(* The user in the dialog.                                                 *)
(***************************************************************************)
Targets == {"copilot", "claude"}
\* what the user leaves in the instruction field: nothing, blanks, a request
Prompts == {<<>>, <<" ", " ">>, <<"f", "i", "x">>, <<" ", "f", "i", "x", " ">>}

InSeq(x, s) == \E i \in 1..Len(s) : s[i] = x

\* the workspace selector, shown when more than one workspace is listed
DialogSelectPort(p) ==
    /\ dialog.open /\ Len(dialog.workspaces) > 1 /\ InSeq(p, dialog.workspaces)
    /\ dialog' = [dialog EXCEPT !.selectedPort = p]
    /\ UNCHANGED <<grabVars, relayVars, auxVars>>

DialogTypePrompt(text) ==
    /\ dialog.open /\ dialog.prompt # text
    /\ dialog' = [dialog EXCEPT !.prompt = text]
    /\ UNCHANGED <<grabVars, relayVars, auxVars>>

\* ws.send on the browser's side, ws.on('message') on the server's: the
\* frame of a call that transmitted starts a handlePromptMessage of its own
Transmit(aw, call) ==
    IF call.tx = "sent"
    THEN [aw EXCEPT ![call.ws] = @ \cup {[id |-> call.id, prompt |-> call.prompt,
                                           target |-> call.target]}]
    ELSE aw

\* a faulty onSendToAI that closes the dialog only when the send succeeded
DialogSendStaysOpenOnFailure(target) ==
    /\ lastCall.id < MaxSends
    /\ LET call == HandleSendToAI(connections, sockets, dialog, target, lastCall.id + 1) IN
       /\ lastCall' = call
       /\ wire' = IF call.tx = "sent"
                  THEN wire \cup {[id |-> call.id, ws |-> call.ws]} ELSE wire
       /\ discarded' = IF Len(call.connected) = 0
                       THEN discarded \cup {call.id} ELSE discarded
       /\ awaiting' = Transmit(awaiting, call)
       /\ dialog' = IF call.result = "true" THEN ClosedDialog ELSE dialog
    /\ UNCHANGED <<grabVars, sockets, connections, extensionEnabled, notice, auxVars>>

\* onSendToAI: sendToVSCode, the failure notification, handleClose
DialogSend(target) ==
    /\ lastCall.id < MaxSends
    /\ LET call == HandleSendToAI(connections, sockets, dialog, target, lastCall.id + 1) IN
       /\ lastCall' = call
       /\ wire' = IF call.tx = "sent"
                  THEN wire \cup {[id |-> call.id, ws |-> call.ws]} ELSE wire
       /\ discarded' = IF Len(call.connected) = 0
                       THEN discarded \cup {call.id} ELSE discarded
       /\ awaiting' = Transmit(awaiting, call)
       /\ dialog' = IF call.result = "threw" THEN dialog ELSE ClosedDialog
    /\ UNCHANGED <<grabVars, sockets, connections, extensionEnabled, notice, auxVars>>

\* a click on Send to Copilot / Send to Claude (disabled without workspaces)
DialogSendButton(target) ==
    /\ dialog.open /\ Len(dialog.workspaces) > 0
    /\ DialogSend(target)

\* a faulty accelerator whose keydown listener outlives the dialog
DialogSendKeyStale(shift) ==
    DialogSend(IF shift THEN "claude" ELSE "copilot")

\* Cmd/Ctrl+Enter (copilot), Cmd/Ctrl+Shift+Enter (claude)
DialogSendKey(shift) ==
    /\ dialog.open
    /\ DialogSend(IF shift THEN "claude" ELSE "copilot")

\* the close button, Cancel, or a click on the backdrop
DialogClose ==
    /\ dialog.open
    /\ dialog' = ClosedDialog
    /\ UNCHANGED <<grabVars, relayVars, auxVars>>

\* keys and modifier states of the keydown events the dialog is given
DialogKeys == {"Escape", "Enter", "a"}

\* a faulty handleKeyDown with the two assistants exchanged
DialogHandleKeyDownSwapped(key, meta, ctrl, shift) ==
    IF key = "Escape" THEN "close"
    ELSE IF key = "Enter" /\ (meta \/ ctrl)
    THEN (IF shift THEN "copilot" ELSE "claude")
    ELSE "none"

\* the dialog's handleKeyDown: the callback it invokes
DialogHandleKeyDown(key, meta, ctrl, shift) ==
    IF key = "Escape" THEN "close"
    ELSE IF key = "Enter" /\ (meta \/ ctrl)
    THEN (IF shift THEN "claude" ELSE "copilot")
    ELSE "none"

\* a keydown event on the document while the dialog is mounted
DialogKeyDown(key, meta, ctrl, shift) ==
    /\ dialog.open
    /\ LET effect == DialogHandleKeyDown(key, meta, ctrl, shift) IN
       \/ /\ effect = "close"
          /\ dialog' = ClosedDialog
          /\ UNCHANGED <<grabVars, relayVars, auxVars>>
       \/ /\ effect \in Targets
          /\ DialogSend(effect)

(***************************************************************************)
(* Specifications.                                                         *)
(***************************************************************************)
GrabEvents(v) ==
    \/ Tick
    \/ HoldTimerFires
    \/ AltKeyDown(v)
    \/ AltKeyUp(v)
    \/ EscapeKeyDown(v)
    \/ WindowBlur(v)
    \/ \E p \in Points : MouseMove(p)
    \/ Click(v)
    \/ DeliverRequest
    \/ DeliverFound(v)
    \/ DeliverNotFound

\* the interaction state machine of the React content script
NextGrab == GrabEvents(TSX)
SpecGrab == Init /\ [][NextGrab]_vars

\* the interaction state machine of the older content script
NextLegacy == GrabEvents(LEGACY)
SpecLegacy == Init /\ [][NextLegacy]_vars

\* the injected script's listener raises while it builds the context of the
\* element it found (a property of the component that throws when read, on
\* the top level of props): the request is consumed and nothing is posted
DeliverRequestRaises ==
    /\ cs.msgQueue # <<>>
    /\ Head(cs.msgQueue).type = "GRAB_GET_ELEMENT_AT_POINT"
    /\ FindComponentElementAtPoint(Head(cs.msgQueue).point) # NoElement
    /\ cs' = [cs EXCEPT !.msgQueue = Tail(@)]
    /\ UNCHANGED <<kbd, cancelled, dialog, relayVars, auxVars>>

\* the older content script on a page whose components may raise
NextUnanswered == GrabEvents(LEGACY) \/ DeliverRequestRaises
SpecUnanswered == Init /\ [][NextUnanswered]_vars

\* handleClick's commit as the relay client and the dialog see it: handleClick
\* leaves the interaction state idle (deactivateGrabMode) and hands the hover
\* context to showComponentDialog
CommitCapture(context) ==
    /\ dialog' = ShowComponentDialog(dialog, context,
                      GetConnectedWorkspaces(connections, sockets))
    /\ UNCHANGED <<grabVars, relayVars, auxVars>>

\* the relay client's connections
NextRelay ==
    \/ PollTick
    \/ \E id \in SockIds : WsOnOpen(id)
    \/ \E id \in SockIds : WsOnError(id)
    \/ \E id \in SockIds : WsOnClose(id)
    \/ \E e \in BOOLEAN : ToggleExtension(e)
SpecRelay == Init /\ [][NextRelay]_vars

\* the relay client's connections while the extension stays enabled and a
\* server listens on every candidate port: the interval timer keeps firing,
\* and an attempt that is made again and again is eventually accepted
NextPoll ==
    \/ PollTick
    \/ \E id \in SockIds : WsOnOpen(id)
    \/ \E id \in SockIds : WsOnError(id)
    \/ \E id \in SockIds : WsOnClose(id)
FairPoll ==
    /\ WF_vars(PollTick)
    /\ \A id \in SockIds : SF_vars(WsOnOpen(id))
SpecPoll == Init /\ [][NextPoll]_vars /\ FairPoll

\* the dialog and sendToVSCode over connections that open, fail, close and
\* are polled again; sendToVSCode never reads the component, so one is captured
NextSend ==
    \/ CommitCapture("UserCard")
    \/ PollTick
    \/ \E id \in SockIds : WsOnOpen(id)
    \/ \E id \in SockIds : WsOnError(id)
    \/ \E id \in SockIds : WsOnClose(id)
    \/ \E p \in Ports : DialogSelectPort(p)
    \/ \E target \in Targets : DialogSendButton(target)
    \/ \E shift \in BOOLEAN : DialogSendKey(shift)
    \/ DialogClose
SpecSend == Init /\ [][NextSend]_vars

\* the dialog with its instruction field, over connections that open, fail
\* and close
NextDialog ==
    \/ \E c \in Contexts : CommitCapture(c)
    \/ \E id \in SockIds : WsOnOpen(id)
    \/ \E id \in SockIds : WsOnError(id)
    \/ \E id \in SockIds : WsOnClose(id)
    \/ \E p \in Ports : DialogSelectPort(p)
    \/ \E text \in Prompts : DialogTypePrompt(text)
    \/ \E target \in Targets : DialogSendButton(target)
    \/ \E shift \in BOOLEAN : DialogSendKey(shift)
    \/ DialogClose
SpecDialog == Init /\ [][NextDialog]_vars

\* prompts sent from the dialog and the server's replies to them
NextServer ==
    \/ CommitCapture("UserCard")
    \/ \E id \in SockIds : WsOnOpen(id)
    \/ \E id \in SockIds : WsOnError(id)
    \/ \E id \in SockIds : WsOnClose(id)
    \/ \E text \in Prompts : DialogTypePrompt(text)
    \/ \E target \in Targets : DialogSendButton(target)
    \/ \E id \in SockIds, executes \in BOOLEAN : ServerReply(id, executes)
SpecServer == Init /\ [][NextServer]_vars

\* ws.onopen of the single-endpoint script
SingleOnOpen(k) ==
    /\ single.socks[k] = "CONNECTING"
    /\ single' = [single EXCEPT !.socks[k] = "OPEN",
                                !.isConnected = TRUE,
                                !.reconnectAttempts = 0,
                                !.scheduled = <<>>]
    /\ UNCHANGED <<grabVars, dialog, relayVars, san, fib, ext, cop>>

\* ws.onclose of the single-endpoint script: after a failed attempt, a lost
\* connection or ws.close()
SingleOnClose(k) ==
    /\ single.socks[k] \in {"CONNECTING", "OPEN", "CLOSING"}
    /\ single' = AttemptReconnect([single EXCEPT !.socks[k] = "NONE",
                                                 !.isConnected = FALSE])
    /\ UNCHANGED <<grabVars, dialog, relayVars, san, fib, ext, cop>>

\* time passes while a reconnection timer runs
SingleTick ==
    /\ single.timers # <<>>
    /\ \A i \in 1..Len(single.timers) : single.timers[i].left > 0
    /\ single' = [single EXCEPT !.timers =
                     [i \in 1..Len(@) |->
                        [@[i] EXCEPT !.left = IF @ > ReconnectTickMs
                                              THEN @ - ReconnectTickMs ELSE 0]]]
    /\ UNCHANGED <<grabVars, dialog, relayVars, san, fib, ext, cop>>

\* a setTimeout(connectWebSocket, ...) of attemptReconnect expires
SingleTimerFires(i, throws) ==
    /\ i \in 1..Len(single.timers)
    /\ single.timers[i].left = 0
    /\ ~single.extensionEnabled \/ throws \/ SingleFreeSlots(single) # {}
    /\ single' = ConnectWebSocket([single EXCEPT !.timers = RemoveAt(@, i)], throws)
    /\ UNCHANGED <<grabVars, dialog, relayVars, san, fib, ext, cop>>

\* chrome.runtime.onMessage of the single-endpoint script, toggleExtension
SingleToggle(enabled) ==
    /\ LET s == [single EXCEPT !.extensionEnabled = enabled] IN
       single' = IF ~enabled /\ s.ws # NoSocket
                 THEN IF s.socks[s.ws] \in {"CONNECTING", "OPEN"}
                      THEN [s EXCEPT !.socks[s.ws] = "CLOSING"]
                      ELSE s
                 ELSE IF enabled /\ s.ws = NoSocket
                 THEN ConnectWebSocket(s, FALSE)
                 ELSE s
    /\ single' # single
    /\ UNCHANGED <<grabVars, dialog, relayVars, san, fib, ext, cop>>

\* the dialog driven from the keyboard alone
NextKeys ==
    \/ \E c \in Contexts : CommitCapture(c)
    \/ \E id \in SockIds : WsOnOpen(id)
    \/ \E id \in SockIds : WsOnError(id)
    \/ \E id \in SockIds : WsOnClose(id)
    \/ \E key \in DialogKeys, meta, ctrl, shift \in BOOLEAN :
          DialogKeyDown(key, meta, ctrl, shift)
SpecKeys == Init /\ [][NextKeys]_vars

\* getComponentInfo: sanitizeProps on componentFiber.memoizedProps
SanitizeCall ==
    /\ san.phase = "input"
    /\ LET r == SanitizeProps(san.heap, san.props) IN
       san' = [san EXCEPT !.result = r,
                          !.phase = IF r.threw THEN "threw" ELSE "sanitized"]
    /\ UNCHANGED <<grabVars, dialog, relayVars, single, fib, ext, cop>>

\* getElementContext: generateJSX on the component info
RenderCall ==
    /\ san.phase = "sanitized"
    /\ san' = [san EXCEPT !.jsx = GenerateJSX(san.element, san.name, san.result.out),
                          !.phase = "rendered"]
    /\ UNCHANGED <<grabVars, dialog, relayVars, single, fib, ext, cop>>

\* getComponentInfo up to the component's name
ResolveCall ==
    /\ fib.phase = "input"
    /\ LET found == FindComponentFiber(fib.chain) IN
       fib' = [fib EXCEPT !.phase = "resolved",
                          !.found = found,
                          !.name = IF found = 0 THEN ""
                                   ELSE GetComponentName(FiberKinds[fib.chain[found]])]
    /\ UNCHANGED <<grabVars, dialog, relayVars, single, san, ext, cop>>

\* the page script resolving the element under the pointer
NextFib == ResolveCall
SpecFib == InitFib /\ [][NextFib]_vars

\* the command react-grab-copilot.startServer
StartServerCommand ==
    /\ ext.current # 0
    /\ Len(ext.servers) < MaxServers
    /\ ext' = [(IF ~ext.insts[ext.current].running THEN Start(ext, ext.current) ELSE ext)
                 EXCEPT !.restarted = NoPort]
    /\ UNCHANGED <<grabVars, dialog, relayVars, single, san, fib, cop>>

\* the command react-grab-copilot.stopServer
StopServerCommand ==
    /\ ext.current # 0
    /\ ext' = [(IF ext.insts[ext.current].running THEN Stop(ext, ext.current) ELSE ext)
                 EXCEPT !.restarted = NoPort]
    /\ UNCHANGED <<grabVars, dialog, relayVars, single, san, fib, cop>>

\* onDidChangeConfiguration: the question is asked while the server runs
ConfigChange(newPort) ==
    /\ ext.current # 0
    /\ Len(ext.prompts) < MaxPrompts
    /\ ext.insts[ext.current].running
    /\ ext' = [ext EXCEPT !.prompts = Append(@, newPort)]
    /\ UNCHANGED <<grabVars, dialog, relayVars, single, san, fib, cop>>

\* the user answers a question: 'Restart', or 'Cancel' or dismissal
AnswerPrompt(k, restart) ==
    /\ k \in 1..Len(ext.prompts)
    /\ restart => Len(ext.servers) < MaxServers /\ Len(ext.insts) < MaxInstances
    /\ LET asked == [ext EXCEPT !.prompts = RemoveAt(@, k)] IN
       ext' = IF restart THEN Restart(asked, ext.prompts[k]) ELSE asked
    /\ UNCHANGED <<grabVars, dialog, relayVars, single, san, fib, cop>>

\* 'listening' of a server: running = true, and start() resolves
ListeningEvent(s) ==
    /\ s \in 1..Len(ext.servers)
    /\ ext.servers[s].state = "bound"
    /\ ext' = [ext EXCEPT !.servers[s].state = "listening",
                          !.insts[ext.servers[s].owner].running = TRUE]
    /\ UNCHANGED <<grabVars, dialog, relayVars, single, san, fib, cop>>

\* 'error' of a server whose bind was refused: start() rejects
ErrorEvent(s) ==
    /\ s \in 1..Len(ext.servers)
    /\ ext.servers[s].state = "refused"
    /\ ext' = [ext EXCEPT !.servers[s].state = "failed"]
    /\ UNCHANGED <<grabVars, dialog, relayVars, single, san, fib, cop>>

\* the callback of wss.close, once the server's connections have ended
CloseCallback(s) ==
    /\ s \in 1..Len(ext.servers)
    /\ ext.servers[s].state = "closing"
    /\ \A c \in Clients :
          ext.socks[c].server = s => ext.socks[c].state \notin {"OPEN", "CLOSING"}
    /\ ext' = [ext EXCEPT !.servers[s].state = "closed",
                          !.insts[ext.servers[s].owner].running = FALSE]
    /\ UNCHANGED <<grabVars, dialog, relayVars, single, san, fib, cop>>

\* 'connection' of a listening server: handleConnection
ClientConnects(c, s) ==
    /\ s \in 1..Len(ext.servers)
    /\ ext.servers[s].state = "listening"
    /\ ext.socks[c].state \in {"NONE", "CLOSED"}
    /\ Len(ext.out) < MaxMessages
    /\ LET joined == [ext EXCEPT !.socks[c] = [server |-> s, state |-> "OPEN"],
                                 !.insts[ext.servers[s].owner].clients = @ \cup {c}]
       IN  ext' = SendMessage(joined, c, 0,
                      [type |-> "status",
                       message |-> "Connected to React Grab VSCode Extension"])
    /\ UNCHANGED <<grabVars, dialog, relayVars, single, san, fib, cop>>

\* a client's frame arrives at the server
ReceiveMessage(from, kind, prompt, target) ==
    /\ ext.socks[from].state = "OPEN"
    /\ Len(ext.msgs) < MaxMessages
    /\ (kind = "prompt") = (target # NULL)
    /\ kind # "prompt" => prompt = <<>>
    /\ ext' = OnMessage(ext, from, kind, prompt, target)
    /\ UNCHANGED <<grabVars, dialog, relayVars, single, san, fib, cop>>

\* executePrompt resolves or rejects
PromptSettles(n, executes) ==
    /\ n \in 1..Len(ext.msgs)
    /\ ext.msgs[n].phase = "executing"
    /\ ext' = OnPromptSettled(ext, n, executes)
    /\ UNCHANGED <<grabVars, dialog, relayVars, single, san, fib, cop>>

\* the listener of 'close' in handleConnection
ClientCloseEvent(c) ==
    /\ ext.socks[c].state \in {"OPEN", "CLOSING"}
    /\ ext' = [ext EXCEPT
                 !.socks[c].state = "CLOSED",
                 !.insts = [i \in 1..Len(ext.insts) |->
                              IF i = ext.servers[ext.socks[c].server].owner
                              THEN [ext.insts[i] EXCEPT !.clients = @ \ {c}]
                              ELSE ext.insts[i]]]
    /\ UNCHANGED <<grabVars, dialog, relayVars, single, san, fib, cop>>

\* the server answering its clients
NextMsg ==
    \/ \E from \in Clients, kind \in MessageKinds, prompt \in ServerPrompts,
          target \in Targets \cup {NULL} : ReceiveMessage(from, kind, prompt, target)
    \/ \E n \in 1..MaxMessages, executes \in BOOLEAN : PromptSettles(n, executes)
    \/ \E c \in Clients : ClientCloseEvent(c)
SpecMsg == InitMsg /\ [][NextMsg]_vars

\* the extension host from activation on
NextLife ==
    \/ StartServerCommand
    \/ StopServerCommand
    \/ \E newPort \in ServerPorts : ConfigChange(newPort)
    \/ \E k \in 1..MaxPrompts, restart \in BOOLEAN : AnswerPrompt(k, restart)
    \/ \E s \in 1..MaxServers : ListeningEvent(s)
    \/ \E s \in 1..MaxServers : ErrorEvent(s)
    \/ \E s \in 1..MaxServers : CloseCallback(s)
    \/ \E c \in Clients, s \in 1..MaxServers : ClientConnects(c, s)
    \/ \E c \in Clients : ClientCloseEvent(c)
SpecLife == InitLife /\ [][NextLife]_vars

(***************************************************************************)
(* The call of executePrompt.                                              *)
(***************************************************************************)
ExecutePromptCall ==
    /\ cop.phase = "input"
    /\ cop' = [cop EXCEPT !.phase = "done",
                          !.result = ExecutePrompt(cop.prompt, cop.target, cop.env,
                                                   cop.preferCli)]
    /\ UNCHANGED <<grabVars, dialog, relayVars, single, san, fib, ext>>

NextCop == ExecutePromptCall

SpecCop == InitCop /\ [][NextCop]_vars

\* the page script describing the component of an element
NextSan == SanitizeCall \/ RenderCall
SpecSan == InitSan /\ [][NextSan]_vars

\* the single-endpoint script's connection over its lifetime
NextSingle ==
    \/ \E k \in SingleSlots : SingleOnOpen(k)
    \/ \E k \in SingleSlots : SingleOnClose(k)
    \/ SingleTick
    \/ \E i \in 1..MAX_RECONNECT_ATTEMPTS, throws \in BOOLEAN : SingleTimerFires(i, throws)
    \/ \E enabled \in BOOLEAN : SingleToggle(enabled)
SpecSingle == Init /\ [][NextSingle]_vars

\* the React content script as a whole
Next ==
    \/ NextGrab \/ NextRelay \/ NextSend
    \/ \E text \in Prompts : DialogTypePrompt(text)
    \/ \E id \in SockIds, executes \in BOOLEAN : ServerReply(id, executes)
Spec == Init /\ [][Next]_vars

(***************************************************************************)
(* Hover resolution and cancellation.                                      *)
(***************************************************************************)
\* the content script's listener takes a response whose request id is lower
\* than the latest id updateHoverElement has issued
StaleResponseDelivered ==
    /\ cs.msgQueue # <<>>
    /\ Head(cs.msgQueue).type \in {"GRAB_ELEMENT_FOUND", "GRAB_ELEMENT_NOT_FOUND"}
    /\ Head(cs.msgQueue).requestId < cs.requestId
    /\ cs'.msgQueue = Tail(cs.msgQueue)

\* C1: a GRAB_ELEMENT_FOUND or GRAB_ELEMENT_NOT_FOUND response whose request
\* id is lower than the latest id issued changes neither the highlight, nor
\* the label, nor the current hover context.
C1_StaleResponseIgnored ==
    [][StaleResponseDelivered =>
          /\ cs'.overlay = cs.overlay
          /\ cs'.label = cs.label
          /\ cs'.currentContext = cs.currentContext]_vars

\* C2: after Escape or a window blur while armed, the highlight box and its
\* label stay hidden until grab mode is armed again, whatever requests were
\* outstanding and whenever their responses arrive.
C2_HiddenAfterCancel ==
    cancelled => cs.overlay.display = "none" /\ cs.label.display = "none"

(***************************************************************************)
(* Connections.                                                            *)
(***************************************************************************)
LiveSockets(p) == {k \in Slots : sockets[<<p, k>>] \in {"CONNECTING", "OPEN"}}

\* C3: every candidate port has at most one socket that is open or still
\* connecting, also when the polling timer fires while an earlier attempt to
\* the port has not completed.
C3_OneLiveSocketPerPort ==
    \A p \in Ports : Cardinality(LiveSockets(p)) <= 1

Called == lastCall.id > 0

\* the sockets that carried the frame of a call
TransmittedOn(id) == {w.ws : w \in {x \in wire : x.id = id}}

BothConnected ==
    InSeq(WS_PORTS[1], lastCall.connected) /\ InSeq(WS_PORTS[2], lastCall.connected)

\* C5: with endpoints connected on 9765 and 9766, selecting 9766 in the dialog
\* and sending transmits the prompt on the connection of 9766 and on no other.
C5_SelectedWorkspaceOnly ==
    (Called /\ lastCall.targetPort = WS_PORTS[2] /\ BothConnected)
        => /\ lastCall.result = "true"
           /\ lastCall.tx = "sent"
           /\ lastCall.ws[1] = WS_PORTS[2]
           /\ TransmittedOn(lastCall.id) = {lastCall.ws}

\* 9766 was selected with both endpoints connected, and the call has sent
C5_SentToSelected ==
    /\ Called /\ lastCall.targetPort = WS_PORTS[2] /\ BothConnected
    /\ \E w \in wire : w.id = lastCall.id /\ w.ws[1] = WS_PORTS[2]

\* C6: a call without target while two or more endpoints are connected
\* returns 'multiple' and transmits to none of them.
C6_AmbiguousWithoutTarget ==
    (Called /\ lastCall.targetPort = NoPort /\ Len(lastCall.connected) >= 2)
        => /\ lastCall.result = "multiple"
           /\ lastCall.tx = NULL
           /\ TransmittedOn(lastCall.id) = {}

\* a call without target has found two endpoints connected
C6_AnsweredMultiple ==
    /\ Called /\ lastCall.targetPort = NoPort /\ Len(lastCall.connected) >= 2
    /\ lastCall.result = "multiple"

\* C7: a call while no endpoint is connected returns false after the
\* notification 'Not connected to VSCode', transmits nothing and does not
\* throw.
C7_NotConnected ==
    (Called /\ Len(lastCall.connected) = 0)
        => /\ lastCall.result = "false"
           /\ InSeq("Not connected to VSCode", lastCall.notes)
           /\ lastCall.tx = NULL
           /\ TransmittedOn(lastCall.id) = {}

\* a call has found no endpoint connected
C7_CalledUnconnected ==
    Called /\ Len(lastCall.connected) = 0 /\ lastCall.result = "false"

\* C8: a call without target while exactly one endpoint is connected
\* transmits on the connection of that endpoint and returns true.
C8_SingleEndpoint ==
    (Called /\ lastCall.targetPort = NoPort /\ Len(lastCall.connected) = 1)
        => /\ lastCall.result = "true"
           /\ lastCall.tx = "sent"
           /\ lastCall.ws[1] = lastCall.connected[1]
           /\ TransmittedOn(lastCall.id) = {lastCall.ws}

\* a call without target has sent to the only endpoint connected
C8_SentToSingle ==
    /\ Called /\ lastCall.targetPort = NoPort /\ Len(lastCall.connected) = 1
    /\ \E w \in wire : w.id = lastCall.id /\ w.ws[1] = lastCall.connected[1]

\* C9: a call whose target connection is not open returns false in the call
\* itself and transmits on no connection.
C9_ClosedTargetFails ==
    (Called /\ lastCall.targetPort # NoPort
            /\ ~InSeq(lastCall.targetPort, lastCall.connected))
        => /\ lastCall.result = "false"
           /\ lastCall.tx = NULL
           /\ TransmittedOn(lastCall.id) = {}

\* the target of a call was not open while another endpoint was connected
C9_TargetClosedOtherOpen ==
    /\ Called /\ lastCall.targetPort # NoPort
    /\ ~InSeq(lastCall.targetPort, lastCall.connected)
    /\ Len(lastCall.connected) >= 1
    /\ lastCall.result = "false"

\* C10: the message of a call that failed because no endpoint was connected
\* is never transmitted, also after an endpoint connects.
C10_DiscardedNeverSent ==
    \A w \in wire : w.id \notin discarded

\* after a call that found no endpoint, an endpoint has connected and carried
\* the frame of a later call
C10_SentAfterDiscard ==
    /\ discarded # {}
    /\ \E w \in wire : sockets[w.ws] = "OPEN" /\ \E d \in discarded : d < w.id

(***************************************************************************)
(* Faults and reconnection.                                                *)
(***************************************************************************)
\* the ports getConnectedWorkspaces lists
ConnectedPorts(conns, socks) ==
    {p \in Ports : InSeq(p, GetConnectedWorkspaces(conns, socks))}

\* the error or close event of a socket of port p is handled in this step
FaultOn(p) ==
    \E k \in Slots : sockets[<<p, k>>] # "NONE" /\ sockets'[<<p, k>>] = "NONE"

\* the open event of a socket of port p is handled in this step
OpenOn(p) ==
    \E k \in Slots : sockets[<<p, k>>] = "CONNECTING" /\ sockets'[<<p, k>>] = "OPEN"

\* C11: after the error or close event of a socket of a port, the port is not
\* among the connected workspaces, and a port that is not among them enters
\* them only in a step in which a socket of that port opens.
C11_FaultDisconnects ==
    [][\A p \in Ports :
          /\ FaultOn(p) => p \notin ConnectedPorts(connections', sockets')
          /\ (p \notin ConnectedPorts(connections, sockets)
                /\ p \in ConnectedPorts(connections', sockets')) => OpenOn(p)]_vars

\* a port is out of the connected workspaces although one of its sockets is
\* open: the close of another socket of the port has removed its entry
C11_UnlistedAfterFault ==
    \E p \in Ports :
        /\ p \notin ConnectedPorts(connections, sockets)
        /\ \E k \in Slots : sockets[<<p, k>>] = "OPEN"
        /\ extensionEnabled

Cleared(s) ==
    /\ ~s.isGrabMode
    /\ ~s.timeout.pending
    /\ s.overlay.display = "none"
    /\ s.label.display = "none"
    /\ s.crosshair = "none"
    /\ s.cursor = ""
    /\ s.pendingRequests = {}
    /\ s.currentContext = NULL

\* C13: an Escape key press or a window blur while armed leaves grab mode in
\* that step with highlight, label, crosshair, cursor, pending requests and
\* current hover context cleared, opens no dialog and sends no message.
C13_CancelClearsAll ==
    [][(cs.isGrabMode /\ (EscapeKeyDown(TSX) \/ WindowBlur(TSX)))
          => /\ Cleared(cs')
             /\ dialog' = dialog
             /\ cs'.msgQueue = cs.msgQueue
             /\ lastCall' = lastCall /\ wire' = wire]_vars

\* grab mode was cancelled while a hover request was still in the window's queue
C13_CancelledWithRequestInFlight ==
    cancelled /\ ~cs.isGrabMode /\ cs.msgQueue # <<>>

\* C14: a click while armed with a hover target returns the machine to Idle
\* with overlays and cursor cleared and opens the composition dialog with the
\* context that was current at the click: the component it names and the
\* document it offers for editing are those of that context.
C14_ClickOpensDialogWithContext ==
    [][(cs.isGrabMode /\ cs.currentContext # NULL /\ Click(TSX))
          => /\ Cleared(cs')
             /\ dialog'.open
             /\ dialog'.context = cs.currentContext
             /\ dialog'.markdown = GenerateMarkdown(cs.currentContext)]_vars

\* no element at the point has a fiber with a valid component above it
ResolutionMiss(p) ==
    \A i \in 1..Len(ElementsFromPoint(p)) : ~HasValidComponent(ElementsFromPoint(p)[i])

\* the content script's listener takes the answer to a request it is waiting for
AnswerDelivered ==
    /\ cs.msgQueue # <<>>
    /\ Head(cs.msgQueue).type \in {"GRAB_ELEMENT_FOUND", "GRAB_ELEMENT_NOT_FOUND"}
    /\ Head(cs.msgQueue).requestId \in cs.pendingRequests
    /\ cs'.msgQueue = Tail(cs.msgQueue)

\* C15: while armed, when no element under the pointer has a fiber with a
\* valid component above it, the answer for that position shows no highlight
\* and sets no hover target.
C15_MissShowsNothing ==
    [][(cs.isGrabMode /\ AnswerDelivered /\ ResolutionMiss(Head(cs.msgQueue).point))
          => /\ cs'.overlay.display = "none"
             /\ cs'.label.display = "none"
             /\ cs'.currentContext = NULL]_vars

(***************************************************************************)
(* The dialog's sends.                                                     *)
(***************************************************************************)
\* C16: while the dialog is shown with no endpoint connected, no user action
\* in it, neither a send button nor Cmd/Ctrl+Enter, makes a send call.
C16_NoSendWithoutEndpoint ==
    [][(dialog.open /\ Len(dialog.workspaces) = 0) => lastCall' = lastCall]_vars

\* C17: every send made from the dialog closes the dialog in the same step,
\* whether sendToVSCode answers true, false or 'multiple'.
C17_SendClosesDialog ==
    [][lastCall'.id # lastCall.id
          => /\ dialog.open /\ ~dialog'.open
             /\ lastCall'.result \in {"true", "false", "multiple"}]_vars

\* a send was answered 'multiple' and the dialog is closed
C17_ClosedAfterMultiple ==
    Called /\ lastCall.result = "multiple" /\ ~dialog.open

\* C18: every prompt message handed to sendToVSCode carries a prompt that is
\* not empty: an instruction field left empty (nothing but blanks, as the
\* receiving side tests it) is rejected before the send or replaced by the
\* canned instruction.
C18_PromptNeverEmpty ==
    Called => Trim(lastCall.prompt) # <<>>

\* C19: a send call is made only from an open dialog, consumes the context
\* that dialog holds, and leaves the dialog closed with nothing retained, so
\* that one opening of the dialog produces at most one send call.
C19_ContextConsumedOnce ==
    [][lastCall'.id # lastCall.id
          => /\ dialog.open
             /\ lastCall'.context = dialog.context
             /\ lastCall'.context # NULL
             /\ dialog' = ClosedDialog]_vars

\* two openings of the dialog have each made their send call
C19_TwoOpeningsTwoCalls ==
    lastCall.id = 2 /\ ~dialog.open /\ lastCall.context \in Contexts

(***************************************************************************)
(* Replies.                                                                *)
(***************************************************************************)
\* C20: on each connection at most one prompt is awaiting its success or
\* error reply at any time.
C20_OneAwaitingPerConnection ==
    \A id \in SockIds : sockets[id] = "OPEN" => Cardinality(awaiting[id]) <= 1

(***************************************************************************)
(* Reconnection of the single-endpoint script.                             *)
(***************************************************************************)
\* C21: since a connection last opened at most MAX_RECONNECT_ATTEMPTS (5)
\* reconnection attempts have been scheduled, the k-th with a delay of
\* k x 1000 ms, and the attempt counter goes back to 0 only in a step in
\* which a socket opens.
C21_BoundedBackoff ==
    [][/\ Len(single'.scheduled) <= 5
       /\ \A k \in 1..Len(single'.scheduled) : single'.scheduled[k] = k * 1000
       /\ single'.reconnectAttempts < single.reconnectAttempts
            => /\ single'.reconnectAttempts = 0
               /\ \E k \in SingleSlots : /\ single.socks[k] = "CONNECTING"
                                          /\ single'.socks[k] = "OPEN"]_vars

\* five attempts were scheduled after a loss and the last has failed
C21_AttemptsExhausted ==
    /\ Len(single.scheduled) = 5
    /\ single.timers = <<>>
    /\ \A k \in SingleSlots : single.socks[k] = "NONE"
    /\ single.extensionEnabled

SanReturned == san.phase \in {"sanitized", "rendered"}

RECURSIVE WithinBreadth(_)
\* no mapping of a sanitized value has more than KEY_LIMIT entries and a
\* summary, no sequence more than ARRAY_LIMIT items and a summary
WithinBreadth(v) ==
    IF v.kind = "object"
    THEN /\ Len(v.keys) <= KEY_LIMIT + 1
         /\ \A i \in 1..Len(v.vals) : WithinBreadth(v.vals[i])
    ELSE IF v.kind = "array"
    THEN /\ Len(v.items) <= ARRAY_LIMIT + 1
         /\ \A i \in 1..Len(v.items) : WithinBreadth(v.items[i])
    ELSE TRUE

\* C23: for any property object, self-referential and wide ones included,
\* sanitizeProps returns a value whose size is bounded by the depth and
\* breadth limits and not by the size of the input.
C23_BoundedOutput ==
    SanReturned => WithinBreadth(san.result.out)

RECURSIVE FirstKeysKept(_, _, _)
\* wherever a mapping of the input with more than KEY_LIMIT keys has been
\* sanitized to a mapping, that mapping has the first KEY_LIMIT keys of the
\* input, in their order, and then the summary of the omitted count
FirstKeysKept(heap, value, out) ==
    IF value.kind # "ref" \/ out.kind \notin {"object", "array"}
    THEN TRUE
    ELSE LET obj == heap[value.v] IN
         IF obj.kind = "array" /\ out.kind = "array"
         THEN \A i \in 1..Len(out.items) :
                 i <= ARRAY_LIMIT => FirstKeysKept(heap, obj.items[i], out.items[i])
         ELSE IF obj.kind = "object" /\ out.kind = "object"
         THEN /\ Len(obj.keys) > KEY_LIMIT
                   => /\ out.keys = SubSeq(obj.keys, 1, KEY_LIMIT) \o <<"...">>
                      /\ out.vals[Len(out.vals)].kind = "string"
                      /\ out.vals[Len(out.vals)].v
                            = ToString(Len(obj.keys) - KEY_LIMIT) \o " more"
              /\ \A i \in 1..Len(out.keys) : \A j \in 1..Len(obj.keys) :
                     obj.keys[j] = out.keys[i]
                        => FirstKeysKept(heap, obj.vals[j], out.vals[i])
         ELSE TRUE

\* C24: every mapping with more than KEY_LIMIT (10) own keys is sanitized
\* to exactly its first KEY_LIMIT keys, in enumeration order, plus one
\* summary entry giving the omitted count.
C24_FirstKeysAndSummary ==
    SanReturned => FirstKeysKept(san.heap, san.props, san.result.out)

\* what sanitize itself writes next to the values it keeps: the summary of
\* a cut mapping or sequence and the placeholder of a failed read
IsAnnotation(parent, i) ==
    \/ parent.kind = "object" /\ parent.keys[i] = "..."
    \/ parent.kind = "array" /\ i = ARRAY_LIMIT + 1
    \/ parent.kind = "object" /\ parent.vals[i].kind = "string"
          /\ parent.vals[i].v = "[Error]"

Children(v) ==
    IF v.kind = "object" THEN v.vals ELSE IF v.kind = "array" THEN v.items ELSE <<>>

RECURSIVE CutBelow(_, _)
\* v is a sanitized value at the given depth: what it holds beyond
\* MAX_DEPTH is the truncation marker
CutBelow(v, depth) ==
    \A i \in 1..Len(Children(v)) :
       LET child == Children(v)[i] IN
       IF depth + 1 > MAX_DEPTH
       THEN \/ child.kind = "string" /\ child.v = "[...]"
            \/ IsAnnotation(v, i)
       ELSE CutBelow(child, depth + 1)

\* C25: no value of the input is kept deeper than MAX_DEPTH (3) in the
\* sanitizer's output: beyond that level a value of any type is replaced by
\* the truncation marker.
C25_DepthBounded ==
    SanReturned =>
        \A i \in 1..Len(san.result.out.vals) : CutBelow(san.result.out.vals[i], 0)

RECURSIVE HasMarker(_)
HasMarker(v) ==
    \/ v.kind = "string" /\ v.v = "[...]"
    \/ \E i \in 1..Len(Children(v)) : HasMarker(Children(v)[i])

\* a value nested one level beyond MAX_DEPTH has been sanitized
C25_Truncated ==
    SanReturned /\ Len(san.heap) > MAX_DEPTH + 2 /\ HasMarker(san.result.out)

\* the keys of props that sanitizeProps is to report
ReportedKeys(heap, props) ==
    SelectSeq(heap[props.v].keys, LAMBDA key : key # "children" /\ ~StartsWith(key, "_"))

\* C26: an exception raised while one property is read or sanitized is
\* contained: sanitizeProps returns normally and reports every property.
C26_FaultsContained ==
    /\ san.phase # "threw"
    /\ SanReturned => san.result.out.keys = ReportedKeys(san.heap, san.props)

\* C28: for the UserCard with name "Ann", an anonymous onClick and six
\* items, the sanitized properties end the items with "...1 more" and the
\* markup is exactly <UserCard name="Ann" onClick={...} items={...} />.
C28_UserCardMarkup ==
    (san.phase = "rendered" /\ san.id = NumChainHeaps + UserCardHeap
       /\ san.element = [children |-> 0, text |-> ""])
    => /\ san.result.out.keys = <<"name", "onClick", "items">>
       /\ san.result.out.vals[2] = Str("ƒ anonymous()")
       /\ san.result.out.vals[3].items[6] = Str("...1 more")
       /\ san.jsx = "<UserCard name=\"Ann\" onClick={...} items={...} />"

(***************************************************************************)
(* Resolution.                                                             *)
(***************************************************************************)
Role(i) == FiberKinds[fib.chain[i]].role

\* C27: when the fiber attached to the DOM node is an excluded internal
\* construct and a user's named component lies further up the return chain,
\* resolution returns the nearest such component, never the construct.
C27_NearestNamedComponent ==
    (/\ fib.phase = "resolved"
     /\ Role(1) = "internal"
     /\ \E i \in 2..Len(fib.chain) : Role(i) = "component")
    => /\ fib.found > 1
       /\ Role(fib.found) = "component"
       /\ \A j \in 1..(fib.found - 1) : Role(j) # "component"

\* a fragment, then another construct, then the named component two levels
\* up, which is the one returned
C27_FoundTwoLevelsUp ==
    /\ fib.phase = "resolved"
    /\ Len(fib.chain) = 3
    /\ Role(1) = "internal" /\ Role(2) = "internal" /\ Role(3) = "component"
    /\ fib.found = 3 /\ fib.name = "UserCard"

(***************************************************************************)
(* Arming again.                                                           *)
(***************************************************************************)
\* C29: after grab mode has ended by Escape or by a committing click while
\* Alt is still held, grab mode is not entered again until Alt has been
\* released and pressed again; the repeated keydown events of the held key
\* do not arm it.
C29_NoRearmWhileHeld ==
    ~(cs.isGrabMode /\ kbd.down /\ kbd.ended)

\* C30: when the window loses focus after the keydown of Alt and before the
\* hold threshold has elapsed, the pending hold timeout does not arm grab
\* mode afterwards.
C30_BlurCancelsPendingHold ==
    ~(cs.isGrabMode /\ kbd.blurred)

(***************************************************************************)
(* Events of sockets that are not registered.                              *)
(***************************************************************************)
\* the socket that connections holds for a port
Registered(port) == GetConn(connections, port).ws

\* C31: a close or error event of a socket that is not the one registered for
\* its port leaves the registered open connection of that port in the
\* connected set.
C31_StrangerLeavesRegistered ==
    [][\A id \in SockIds :
          (/\ sockets[id] # "NONE" /\ sockets'[id] = "NONE"
           /\ HasPort(connections, id[1])
           /\ Registered(id[1]) # id
           /\ sockets[Registered(id[1])] = "OPEN")
          => InSeq(id[1], GetConnectedWorkspaces(connections', sockets'))]_vars

(***************************************************************************)
(* The outcome of a send.                                                  *)
(***************************************************************************)
\* C32: every send from the dialog either transmits the message on exactly
\* one connection or shows an error notification; no send ends with
\* neither, the ambiguous outcome of sendToVSCode included.
C32_SentOrNotified ==
    Called =>
        \/ lastCall.tx = "sent" /\ Cardinality(TransmittedOn(lastCall.id)) = 1
        \/ Len(lastCall.notes) > 0

(***************************************************************************)
(* The disabled extension.                                                 *)
(***************************************************************************)
\* C33: while the extension is disabled for the site the connected set is
\* empty: the connections open at the moment of disabling are closed, and no
\* socket created before disabling is registered as connected afterwards.
C33_DisabledMeansDisconnected ==
    ~extensionEnabled => GetConnectedWorkspaces(connections, sockets) = <<>>

(***************************************************************************)
(* Release.                                                                *)
(***************************************************************************)
\* C34: releasing the Alt key while armed returns the machine to Idle with
\* highlight, label, crosshair lines and cursor styling cleared.
C34_ReleaseReturnsToIdle ==
    [][(cs.isGrabMode /\ AltKeyUp(TSX))
          => /\ ~cs'.isGrabMode
             /\ cs'.keyDownTime = NULL /\ ~cs'.timeout.pending
             /\ cs'.overlay.display = "none"
             /\ cs'.label.display = "none"
             /\ cs'.crosshair = "none"
             /\ cs'.cursor = ""]_vars

\* Alt was released while armed: grab mode is off with the key up, although
\* the request issued at arming is still on its way and nothing cancelled or
\* committed the capture
C34_ReleasedWhileArmed ==
    /\ ~cs.isGrabMode /\ ~kbd.down /\ ~cancelled
    /\ cs.requestId = 1 /\ Len(cs.msgQueue) = 1
    /\ cs.currentContext = NULL /\ ~dialog.open
    /\ cs.overlay.display = "none" /\ cs.crosshair = "none" /\ cs.cursor = ""

(***************************************************************************)
(* Replies of the server.                                                  *)
(***************************************************************************)
\* the clients the replies to message n went to, in the order sent
RepliesTo(n) ==
    LET replies == SelectSeq(ext.out, LAMBDA f : f.re = n)
    IN  [k \in 1..Len(replies) |-> replies[k].to]

\* C35 as stated: for every message received on an open client connection
\* the server sends exactly one reply, and sends it only to the client that
\* sent the message.
C35_ExactlyOneReply ==
    \A n \in 1..Len(ext.msgs) :
        ext.msgs[n].phase = "done" => RepliesTo(n) = <<ext.msgs[n].from>>

\* C35: for every message received on an open client connection the server
\* sends one reply to the client that sent it, and to no other, when the
\* connection is still open at the end of the handling; it sends none when
\* the client has closed the connection by then, and never more than one.
C35_OneReplyWhileOpen ==
    \A n \in 1..Len(ext.msgs) :
        /\ ext.msgs[n].phase = "done" =>
              RepliesTo(n) = IF ext.msgs[n].openAtEnd THEN <<ext.msgs[n].from>> ELSE <<>>
        /\ ext.msgs[n].phase # "done" => RepliesTo(n) = <<>>

\* every kind of message has been answered, one of them a prompt that was
\* executed, and a prompt of a client that closed meanwhile went unanswered
C35_AnsweredAndUnanswered ==
    /\ Len(ext.msgs) = MaxMessages
    /\ \A n \in 1..Len(ext.msgs) : ext.msgs[n].phase = "done"
    /\ \E n \in 1..Len(ext.msgs) :
          /\ ext.msgs[n].kind = "prompt" /\ ext.msgs[n].prompt # <<>>
          /\ RepliesTo(n) = <<ext.msgs[n].from>>
    /\ \E n \in 1..Len(ext.msgs) : ~ext.msgs[n].openAtEnd /\ RepliesTo(n) = <<>>
    /\ \E n \in 1..Len(ext.msgs) : ext.msgs[n].kind = "unknown"

(***************************************************************************)
(* The life of the server.                                                 *)
(***************************************************************************)
\* the underlying server of instance i is listening
Listens(e, i) ==
    e.insts[i].wss # 0 /\ e.servers[e.insts[i].wss].state = "listening"

\* C36: isRunning() is true exactly while the server is listening: it is
\* true once start() has resolved, and it is false and the client set is
\* empty once stop() has returned.
C36_RunningMeansListening ==
    [][/\ \A i \in 1..Len(ext'.insts) : ext'.insts[i].running <=> Listens(ext', i)
       /\ \A s \in 1..Len(ext.servers) :
             ListeningEvent(s) => ext'.insts[ext.servers[s].owner].running
       /\ (StopServerCommand /\ ext.insts[ext.current].running)
             => /\ ~ext'.insts[ext.current].running
                /\ ext'.insts[ext.current].clients = {}]_vars

\* C37: an instance never has more than one underlying listening socket,
\* even when start() is called a second time before the listening event of
\* the first call.
C37_OneListeningSocket ==
    \A i \in 1..Len(ext.insts) :
        Cardinality({s \in 1..Len(ext.servers) :
                        ext.servers[s].owner = i /\ ext.servers[s].state = "listening"}) <= 1

\* start() ran a second time before the listening event of the first: the
\* instance has two underlying servers, the first of them holding the port
C37_StartedTwiceBeforeListening ==
    \E s1, s2 \in 1..Len(ext.servers) :
        /\ s1 < s2 /\ ext.servers[s1].owner = ext.servers[s2].owner
        /\ ext.servers[s1].state = "bound"
        /\ ext.servers[s2].state \in {"refused", "failed"}

\* no event of a server is pending and no question is unanswered
Settled ==
    /\ ext.prompts = <<>>
    /\ \A s \in 1..Len(ext.servers) :
          ext.servers[s].state \notin {"bound", "refused", "closing"}

\* C38: after the user has confirmed a restart on a configuration change,
\* exactly one server ends up running, and it listens on the newly
\* configured port, also when the new port equals the old one.
C38_RestartLeavesOneServer ==
    (ext.restarted # NoPort /\ Settled)
        => /\ Cardinality({s \in 1..Len(ext.servers) :
                             ext.servers[s].state = "listening"}) = 1
           /\ ext.insts[ext.current].running
           /\ Listens(ext, ext.current)
           /\ ext.servers[ext.insts[ext.current].wss].port = ext.restarted

\* the methods of executeClaude in the order the setting asks for
MethodOrder(preferCli) ==
    IF preferCli THEN <<"cli", "chat", "ext">> ELSE <<"chat", "ext", "cli">>

\* C39: executePrompt with target claude tries its delivery methods in a
\* fixed order (the CLI first only when preferClaudeCli is set, then the
\* chat with @claude, then the Claude extension commands, then the CLI when
\* it was not preferred), stops at the first method that succeeds, and
\* throws only when every method has failed.
C39_FixedOrderFirstSuccess ==
    (cop.phase = "done" /\ cop.target = "claude")
        => LET tried == cop.result.tried
               order == MethodOrder(cop.preferCli)
           IN  /\ Len(tried) <= Len(order)
               /\ \A k \in 1..Len(tried) : tried[k].method = order[k]
               /\ \A k \in 1..(Len(tried) - 1) : tried[k].result # "true"
               /\ cop.result.outcome = "returned"
                     => tried # <<>> /\ tried[Len(tried)].result = "true"
               /\ cop.result.outcome = "thrown"
                     => /\ Len(tried) = Len(order)
                        /\ \A k \in 1..Len(tried) : tried[k].result # "true"

\* C40: every entry added to pendingRequests by a hover request is
\* eventually removed, by its response or by deactivation of grab mode:
\* once grab mode is off and every message of the window has been handled,
\* no entry is left.
C40_RequestsDoNotPile ==
    (~cs.isGrabMode /\ cs.msgQueue = <<>>) => cs.pendingRequests = {}

====
